---------------------------- MODULE Spec2Model ----------------------------
(***************************************************************************)
(* A model of ProtobufClient (src/src/protocol/protobuf_client.py): the    *)
(* client side of the framed control protocol.  Frames are sequences of   *)
(* bytes (0..255); the frame prefix, the protobuf wire format of headers   *)
(* and bodies and the container records are decoded from those bytes as    *)
(* the code decodes them.  Python exceptions are modelled as the name of   *)
(* the exception that propagates ("none" when nothing was raised).         *)
(***************************************************************************)
EXTENDS Integers, Sequences, FiniteSets, TLC

(***************************************************************************)
(* Bounds of the model.                                                    *)
(***************************************************************************)
MaxTasks == 2      \* heartbeat tasks ever created (successful logon responses)

(***************************************************************************)
(* Program constants.                                                      *)
(***************************************************************************)
ProtoMaskByte == 128            \* _PROTO_MASK = 0x80000000: the top bit of the 4th byte
SizeBytes == 4                  \* size_bytes in _process_multi
MinPacketSize == 8              \* package_size < 8
JunkFlags == 520                \* license.flags 520
EResultOK == 1                  \* EResult.OK
EMsgMulti == 1
EMsgServiceMethod == 146
EMsgServiceMethodResponse == 147
EMsgServiceMethodCallFromClient == 151
EMsgClientHeartBeat == 703
EMsgClientLogOff == 706
EMsgClientChangeStatus == 716
EMsgClientLogOnResponse == 751
EMsgClientPersonaState == 766
EMsgClientFriendsList == 767
EMsgClientLicenseList == 780
EMsgClientRequestFriendData == 815
EMsgClientGetUserStats == 818
EMsgClientGetUserStatsResponse == 819
EMsgClientLogon == 5514
EMsgPICSProductInfoRequest == 8903
EMsgPICSProductInfoResponse == 8904
EAccountTypeIndividual == 1

\* An optional value: None, or Some(v); the value of Some(v) is x[1].
None == <<>>

Some(v) == <<v>>

Min(a, b) == IF a < b THEN a ELSE b

(***************************************************************************)
(* Bytes.  Slice(s, a, b) is Python's s[a:b] for 0 <= a, 0 <= b: it never  *)
(* fails, and is shorter than b - a when s ends early.                     *)
(***************************************************************************)
Slice(s, a, b) == SubSeq(s, a + 1, Min(b, Len(s)))

SliceFrom(s, a) == SubSeq(s, a + 1, Len(s))

RECURSIVE LEValue(_)
\* The number a little-endian byte string denotes.
LEValue(s) == IF s = <<>> THEN 0 ELSE s[1] + 256 * LEValue(Tail(s))

RECURSIVE LEBytes(_, _)
\* The n little-endian bytes of the number v.
LEBytes(v, n) == IF n = 0 THEN <<>> ELSE <<v % 256>> \o LEBytes(v \div 256, n - 1)

\* struct.unpack("<I", s): raises struct.error unless s holds exactly 4 bytes.
UnpackOk(s) == Len(s) = 4

\* A 64-bit value is kept as its 8 little-endian bytes (it exceeds the
\* integers of TLC); U64(n) is the 64-bit value of a small number.
U64(n) == LEBytes(n, 8)

U64Max == <<255, 255, 255, 255, 255, 255, 255, 255>>

(***************************************************************************)
(* The protobuf wire format (google.protobuf, used through the generated   *)
(* message classes): a message is a sequence of fields, each a varint tag  *)
(* (field number * 8 + wire type) and a value: wire type 0 a varint, 1     *)
(* eight bytes, 2 a varint length and that many bytes, 5 four bytes.       *)
(* A parsed field is [f, wt, v]; v is a number for wire type 0 and bytes   *)
(* otherwise.                                                              *)
(***************************************************************************)
RECURSIVE Varint(_)
Varint(v) == IF v < 128 THEN <<v>> ELSE <<128 + (v % 128)>> \o Varint(v \div 128)

\* A varint byte b with the continuation bit, and the rest r of the varint.
MoreVarint(b, r) == [ok |-> r.ok, v |-> (b - 128) + 128 * r.v, next |-> r.next]

RECURSIVE ReadVarint(_, _)
\* The varint at (1-based) position i of s: [ok, v, next].
ReadVarint(s, i) ==
    IF i > Len(s) THEN [ok |-> FALSE, v |-> 0, next |-> i]
    ELSE IF s[i] < 128 THEN [ok |-> TRUE, v |-> s[i], next |-> i + 1]
    ELSE MoreVarint(s[i], ReadVarint(s, i + 1))

Field(f, wt, v) == [f |-> f, wt |-> wt, v |-> v]

SerField(fld) ==
    Varint(fld.f * 8 + fld.wt) \o
    (CASE fld.wt = 0 -> Varint(fld.v)
       [] fld.wt = 2 -> Varint(Len(fld.v)) \o fld.v
       [] OTHER -> fld.v)

RECURSIVE SerializeToString(_)
SerializeToString(fields) ==
    IF fields = <<>> THEN <<>>
    ELSE SerField(Head(fields)) \o SerializeToString(Tail(fields))

ParseFail == [ok |-> FALSE, fields |-> <<>>]

RECURSIVE ParseFrom(_, _)
\* The parse of a field's value and of what follows it.
ParseRest(fld, r) ==
    IF r.ok THEN [ok |-> TRUE, fields |-> <<fld>> \o r.fields] ELSE ParseFail

\* A value of n bytes at position i.
ParseFixed(s, f, wt, i, n) ==
    IF i + n - 1 > Len(s) THEN ParseFail
    ELSE ParseRest(Field(f, wt, SubSeq(s, i, i + n - 1)), ParseFrom(s, i + n))

\* A varint value v.
ParseVarint(s, f, v) ==
    IF v.ok THEN ParseRest(Field(f, 0, v.v), ParseFrom(s, v.next)) ELSE ParseFail

\* A length-delimited value, l its length varint.
ParseBytes(s, f, l) == IF l.ok THEN ParseFixed(s, f, 2, l.next, l.v) ELSE ParseFail

\* A field with tag varint t.
ParseField(s, t) ==
    IF ~t.ok \/ t.v \div 8 = 0 THEN ParseFail
    ELSE CASE t.v % 8 = 0 -> ParseVarint(s, t.v \div 8, ReadVarint(s, t.next))
           [] t.v % 8 = 1 -> ParseFixed(s, t.v \div 8, 1, t.next, 8)
           [] t.v % 8 = 2 -> ParseBytes(s, t.v \div 8, ReadVarint(s, t.next))
           [] t.v % 8 = 5 -> ParseFixed(s, t.v \div 8, 5, t.next, 4)
           [] OTHER -> ParseFail

\* ParseFromString from position i on: [ok, fields]; ok is FALSE where the
\* library raises DecodeError (truncated field, field number 0, bad wire type).
ParseFrom(s, i) ==
    IF i > Len(s) THEN [ok |-> TRUE, fields |-> <<>>]
    ELSE ParseField(s, ReadVarint(s, i))

ParseFromString(s) == ParseFrom(s, 1)

\* The fields numbered f with wire type wt, in order.
Select(fields, f, wt) == SelectSeq(fields, LAMBDA x : x.f = f /\ x.wt = wt)

HasField(fields, f, wt) == Select(fields, f, wt) # <<>>

\* The value of the last of the fields xs, or the default.
LastValue(xs, default) == IF xs = <<>> THEN default ELSE xs[Len(xs)].v

\* An optional scalar field: the last occurrence, or the default.
Get(fields, f, wt, default) == LastValue(Select(fields, f, wt), default)

Values(xs) == [i \in 1..Len(xs) |-> xs[i].v]

\* A repeated field: every occurrence's value, in order.
Repeated(fields, f, wt) == Values(Select(fields, f, wt))


(***************************************************************************)
(* The names the dispatcher compares target_job_name with (ASCII).         *)
(***************************************************************************)
\* "Chat.RequestFriendPersonaStates#1"
NameFriendPersonaStates ==
    <<67, 104, 97, 116, 46, 82, 101, 113, 117, 101, 115, 116, 70, 114, 105, 101,
      110, 100, 80, 101, 114, 115, 111, 110, 97, 83, 116, 97, 116, 101, 115, 35, 49>>

\* "CloudConfigStore.Download#1"
NameCollections ==
    <<67, 108, 111, 117, 100, 67, 111, 110, 102, 105, 103, 83, 116, 111, 114, 101,
      46, 68, 111, 119, 110, 108, 111, 97, 100, 35, 49>>

\* "Community.GetAppRichPresenceLocalization#1"
NameTranslations ==
    <<67, 111, 109, 109, 117, 110, 105, 116, 121, 46, 71, 101, 116, 65, 112, 112,
      82, 105, 99, 104, 80, 114, 101, 115, 101, 110, 99, 101, 76, 111, 99, 97, 108,
      105, 122, 97, 116, 105, 111, 110, 35, 49>>

\* "Player.GetFriendsGameplayInfo#1"
NameGameTime ==
    <<80, 108, 97, 121, 101, 114, 46, 71, 101, 116, 70, 114, 105, 101, 110, 100,
      115, 71, 97, 109, 101, 112, 108, 97, 121, 73, 110, 102, 111, 35, 49>>

\* "status"
KeyStatus == <<115, 116, 97, 116, 117, 115>>

\* "#"
CharHash == 35

(***************************************************************************)
(* The client during one operation: the object's fields, the clock, and    *)
(* what the operation did so far: ev, the calls it made in order (packets  *)
(* handed to _process_packet, log lines, handler calls, socket sends,      *)
(* tasks created and cancelled), and err, the exception that propagates.   *)
(* failAt is the input of the operation: which of its socket sends fails   *)
(* (0: none).                                                              *)
(***************************************************************************)
Event(type, name, arg) == [type |-> type, name |-> name, arg |-> arg]

Emit(c, type, name, arg) == [c EXCEPT !.ev = Append(@, Event(type, name, arg))]

Raise(c, e) == [c EXCEPT !.err = e]

Log(c, what) == Emit(c, "log", what, <<>>)

\* await handler(args): a handler left at None is not callable.
CallHandler(c, h, args) ==
    IF h \in c.handlers THEN Emit(c, "handler", h, args)
    ELSE Raise(c, "TypeError")

(***************************************************************************)
(* _send: the header carries the ids that are known and the job fields     *)
(* that were passed; the frame is the type word with the flag bit, the     *)
(* header length, the header and the body.                                 *)
(***************************************************************************)
\* word | _PROTO_MASK, on the 4 bytes of the word.
WithProtoMask(b) ==
    <<b[1], b[2], b[3], IF b[4] < ProtoMaskByte THEN b[4] + ProtoMaskByte ELSE b[4]>>

\* struct.pack("<I", emsg | _PROTO_MASK)
PackEMsg(emsg) == WithProtoMask(LEBytes(emsg, 4))

\* A header that always has client_sessionid, 0 while no session id is known:
\* a _send without the test of line 171.
SendHeaderZeroSession(c, source_job_id, target_job_id, target_job_name) ==
    (IF c.steam_id # None THEN <<Field(1, 1, c.steam_id[1])>> ELSE <<>>) \o
    <<Field(2, 0, IF c.session_id # None THEN c.session_id[1] ELSE 0)>> \o
    (IF source_job_id # None THEN <<Field(10, 1, source_job_id[1])>> ELSE <<>>) \o
    (IF target_job_id # None THEN <<Field(11, 1, target_job_id[1])>> ELSE <<>>) \o
    (IF target_job_name # None THEN <<Field(12, 2, target_job_name[1])>> ELSE <<>>)

SendHeader(c, source_job_id, target_job_id, target_job_name) ==
    (IF c.steam_id # None THEN <<Field(1, 1, c.steam_id[1])>> ELSE <<>>) \o
    (IF c.session_id # None THEN <<Field(2, 0, c.session_id[1])>> ELSE <<>>) \o
    (IF source_job_id # None THEN <<Field(10, 1, source_job_id[1])>> ELSE <<>>) \o
    (IF target_job_id # None THEN <<Field(11, 1, target_job_id[1])>> ELSE <<>>) \o
    (IF target_job_name # None THEN <<Field(12, 2, target_job_name[1])>> ELSE <<>>)

Frame(emsg, header, body) ==
    PackEMsg(emsg) \o LEBytes(Len(header), 4) \o header \o body

\* await self._socket.send(data): the transport raises when the send fails.
SocketSend(c, data) ==
    LET n == c.sends + 1
        c1 == [c EXCEPT !.sends = n]
    IN  IF n = c.failAt
        THEN Raise(Emit(c1, "send", "failed", data), "TransportError")
        ELSE Emit(c1, "send", "ok", data)

Send(c, emsg, message, source_job_id, target_job_id, target_job_name) ==
    LET header == SerializeToString(
                      SendHeader(c, source_job_id, target_job_id, target_job_name))
        body == SerializeToString(message)
    IN  SocketSend(c, Frame(emsg, header, body))

\* A get_apps_info that sends nothing.
GetAppsInfoSilent(c, app_ids) == c

\* get_apps_info: one product-info request naming the apps.
GetAppsInfo(c, app_ids) ==
    Send(c, EMsgPICSProductInfoRequest,
         [i \in 1..Len(app_ids) |->
             Field(2, 2, SerializeToString(<<Field(1, 0, app_ids[i])>>))],
         None, None, None)

(***************************************************************************)
(* The collaborator codecs (gzip, vdf, json: libraries, not this           *)
(* repository's code).  Each is modelled by a small format of its own that *)
(* keeps what the client's code reads from the decoded value and every way *)
(* the decoding or the lookups can fail.                                   *)
(***************************************************************************)
RECURSIVE ByteSum(_)
ByteSum(s) == IF s = <<>> THEN 0 ELSE s[1] + ByteSum(Tail(s))

\* The member's check word (CRC-32 in the library; the byte sum here).
GzipCheck(data) == LEBytes(ByteSum(data) % 65536, 4)

\* One gzip member holding data in a stored block: the 10-byte member header,
\* the block header (final, stored; LEN; NLEN), the data, the check word and
\* the length word.
GzipCompress(data) ==
    <<31, 139, 8, 0, 0, 0, 0, 0, 0, 255>> \o
    <<1>> \o LEBytes(Len(data), 2) \o LEBytes(65535 - Len(data), 2) \o
    data \o GzipCheck(data) \o LEBytes(Len(data), 4)

RECURSIVE GzipDecompress(_)
\* gzip.decompress: [err, data]; the empty input decompresses to nothing,
\* members are concatenated, and a wrong magic, a truncated member or a failed
\* check raises.
GzipDecompress(s) ==
    IF s = <<>> THEN [err |-> "none", data |-> <<>>]
    ELSE IF Len(s) < 2 THEN [err |-> "EOFError", data |-> <<>>]
    ELSE IF s[1] # 31 \/ s[2] # 139 THEN [err |-> "BadGzipFile", data |-> <<>>]
    ELSE IF Len(s) < 15 THEN [err |-> "EOFError", data |-> <<>>]
    ELSE IF s[3] # 8 \/ s[11] # 1 THEN [err |-> "BadGzipFile", data |-> <<>>]
    ELSE
      LET len == LEValue(SubSeq(s, 12, 13))
          nlen == LEValue(SubSeq(s, 14, 15))
          data == SubSeq(s, 16, 15 + len)
      IN  IF len + nlen # 65535 THEN [err |-> "zlib.error", data |-> <<>>]
          ELSE IF Len(s) < 15 + len + 8 THEN [err |-> "EOFError", data |-> <<>>]
          ELSE IF SubSeq(s, 16 + len, 19 + len) # GzipCheck(data)
                  \/ SubSeq(s, 20 + len, 23 + len) # LEBytes(len, 4)
               THEN [err |-> "BadGzipFile", data |-> <<>>]
          ELSE LET rest == GzipDecompress(SubSeq(s, 24 + len, Len(s)))
               IN  IF rest.err # "none" THEN rest
                   ELSE [err |-> "none", data |-> data \o rest.data]

\* vdf.binary_loads of a package's metadata (after its 4-byte preamble), read
\* as package_content[str(packageid)]['appids']: the blob is the package id
\* it describes, then its app ids; KeyError when it describes another package.
VdfPackageAppIds(blob, packageid) ==
    IF blob = <<>> \/ blob[1] # packageid THEN [err |-> "KeyError", appids |-> <<>>]
    ELSE [err |-> "none", appids |-> Tail(blob)]

\* vdf.loads of an app's text metadata: the blob is <<appid, type, name>>,
\* type 1 for a type that lower-cases to 'game', 2 for another type, 0 for
\* no ['common']['type'] (KeyError); a blob without ['appinfo']['appid'] is
\* empty.
VdfApp(blob) ==
    IF Len(blob) < 3 THEN [has_appid |-> FALSE, appid |-> 0, type |-> 0, name |-> 0]
    ELSE [has_appid |-> TRUE, appid |-> blob[1], type |-> blob[2], name |-> blob[3]]

\* vdf.binary_loads of the achievement schema: a sequence of 4-byte entries
\* <<game, block, bit, kind>>: the bit is in
\* schema[str(game)]['stats'][str(block)]['bits'], and kind says what is under
\* it: 1 the ['display']['name'] holds an 'english' name, 2 it holds a name
\* without 'english', 3 there is no ['display']['name'].
RECURSIVE VdfSchema(_)
VdfSchema(blob) ==
    IF Len(blob) < 4 THEN {}
    ELSE {[game |-> blob[1], block |-> blob[2], bit |-> blob[3], kind |-> blob[4]]}
         \cup VdfSchema(SubSeq(blob, 5, Len(blob)))

\* json.loads of a collection entry, read as loaded_val['name'] and
\* loaded_val['added']: the value is '{', name, added, '}'; anything else
\* raises (no JSON, or a key is missing).
JsonLoads(value) ==
    IF Len(value) = 4 /\ value[1] = 123 /\ value[4] = 125
    THEN [ok |-> TRUE, name |-> value[2], added |-> value[3]]
    ELSE [ok |-> FALSE, name |-> 0, added |-> 0]

\* dict[key] = value, on a dict kept as the sequence of its <<key, value>>
\* items in insertion order.
DictSet(d, key, value) ==
    IF \E i \in 1..Len(d) : d[i][1] = key
    THEN [i \in 1..Len(d) |-> IF d[i][1] = key THEN <<key, value>> ELSE d[i]]
    ELSE Append(d, <<key, value>>)

(***************************************************************************)
(* The heartbeat tasks.  tasks holds every task created, in order; a task  *)
(* is [interval, slept, status]: it is in asyncio.sleep(interval) for      *)
(* slept seconds ("sleeping"), or has ended by cancellation ("cancelled")  *)
(* or with the exception of a failed send ("failed"); a task that has      *)
(* ended has no timer (slept = 0).                                         *)
(***************************************************************************)
\* A variant that sends the first keep-alive without sleeping: C3 fails
\* for it.
HeartbeatStartAwake(interval) ==
    [interval |-> interval, slept |-> interval, status |-> "sleeping"]

\* asyncio.create_task(self._heartbeat(interval)): the task starts with
\* asyncio.sleep(interval).
HeartbeatStart(interval) ==
    [interval |-> interval, slept |-> 0, status |-> "sleeping"]

\* _heartbeat after its send: the exception ends the task, otherwise it
\* sleeps again.
HeartbeatSent(task, err) ==
    IF err = "none" THEN [task EXCEPT !.slept = 0]
    ELSE [task EXCEPT !.status = "failed", !.slept = 0]

CreateHeartbeatTask(c, interval) ==
    LET c1 == [c EXCEPT !.tasks = Append(@, HeartbeatStart(interval)),
                        !.heartbeat_task = Some(Len(c.tasks) + 1)]
    IN  Emit(c1, "task", "create", Len(c.tasks) + 1)

\* task.cancel(): ends a task that has not ended yet.
TaskCancel(c, i) ==
    LET c1 == IF c.tasks[i].status = "sleeping"
              THEN [c EXCEPT !.tasks[i].status = "cancelled", !.tasks[i].slept = 0]
              ELSE c
    IN  Emit(c1, "task", "cancel", i)

(***************************************************************************)
(* The handlers of the decoded messages.                                   *)
(***************************************************************************)
\* ParseFromString of every embedded message of a repeated field; the parse
\* of the enclosing message raises when one of them is malformed.
ParseEach(blobs) == [i \in 1..Len(blobs) |-> ParseFromString(blobs[i])]

AllOk(parsed) == \A i \in 1..Len(parsed) : parsed[i].ok

ProcessClientLogOnResponse(c, body) ==
    LET m == ParseFromString(body)
        result == Get(m.fields, 1, 0, 2)
        interval == Get(m.fields, 2, 0, 0)
        c1 == IF result = EResultOK THEN CreateHeartbeatTask(c, interval) ELSE c
    IN  IF ~m.ok THEN Raise(c, "DecodeError")
        ELSE IF "log_on" \in c.handlers
             THEN Emit(c1, "handler", "log_on", <<result>>)
             ELSE c1

ProcessClientLogOff(c, body) ==
    LET m == ParseFromString(body)
        result == Get(m.fields, 1, 0, 2)
    IN  IF ~m.ok THEN Raise(c, "DecodeError")
        ELSE IF c.heartbeat_task = None THEN Raise(c, "AssertionError")
        ELSE LET c1 == TaskCancel(c, c.heartbeat_task[1])
             IN  IF "log_off" \in c.handlers
                 THEN Emit(c1, "handler", "log_off", <<result>>)
                 ELSE c1

\* SteamId.parse(steam_id).type_: bits 52..55 of the 64-bit id.
AccountType(steam_id) == steam_id[7] \div 16

RECURSIVE FriendsDict(_, _, _)
FriendsDict(friends, i, d) ==
    IF i > Len(friends) THEN d
    ELSE LET steam_id == Get(friends[i].fields, 1, 1, U64(0))
             rel == Get(friends[i].fields, 2, 0, 0)
         IN  FriendsDict(friends, i + 1,
                 IF AccountType(steam_id) = EAccountTypeIndividual
                 THEN DictSet(d, steam_id, rel) ELSE d)

ProcessClientFriendList(c, body) ==
    IF "relationship" \notin c.handlers THEN c
    ELSE LET m == ParseFromString(body)
             friends == ParseEach(Repeated(m.fields, 2, 2))
         IN  IF ~m.ok \/ ~AllOk(friends) THEN Raise(c, "DecodeError")
             ELSE Emit(c, "handler", "relationship",
                       <<Get(m.fields, 1, 0, 0), FriendsDict(friends, 1, <<>>)>>)

RECURSIVE RichPresence(_, _, _, _, _)
\* for element in user.rich_presence, from element i on: [c, rp].
RichPresence(c, gameid, elements, i, rp) ==
    IF c.err # "none" \/ i > Len(elements) THEN [c |-> c, rp |-> rp]
    ELSE LET key == Get(elements[i].fields, 1, 2, <<>>)
             value == Get(elements[i].fields, 2, 2, <<>>)
             c1 == IF key = KeyStatus /\ value # <<>> /\ value[1] = CharHash
                   THEN CallHandler(c, "translations", <<gameid>>)
                   ELSE c
         IN  RichPresence(c1, gameid, elements, i + 1, DictSet(rp, key, value))

\* One pass of the loop over message.friends.
PersonaStateUser(c, user) ==
    LET user_id == Get(user, 1, 1, U64(0))
        app_id == Get(user, 3, 0, 0)
        c1 == IF c.steam_id # None /\ user_id = c.steam_id[1] /\ app_id # 0
              THEN GetAppsInfo(c, <<app_id>>)
              ELSE c
        gameid == Get(user, 56, 1, U64(0))
        r == IF HasField(user, 56, 1)
             THEN RichPresence(c1, gameid, ParseEach(Repeated(user, 71, 2)), 1, <<>>)
             ELSE [c |-> c1, rp |-> <<>>]
        user_info ==
            [name |-> IF HasField(user, 15, 2) THEN Some(Get(user, 15, 2, <<>>)) ELSE None,
             avatar_hash |-> IF HasField(user, 31, 2) THEN Some(Get(user, 31, 2, <<>>)) ELSE None,
             state |-> IF HasField(user, 2, 0) THEN Some(Get(user, 2, 0, 0)) ELSE None,
             game_id |-> IF HasField(user, 56, 1) THEN Some(gameid) ELSE None,
             rich_presence |-> IF HasField(user, 56, 1) THEN Some(r.rp) ELSE None,
             game_name |-> IF HasField(user, 55, 2) THEN Some(Get(user, 55, 2, <<>>)) ELSE None]
    IN  IF c1.err # "none" THEN c1
        ELSE IF r.c.err # "none" THEN r.c
        ELSE Emit(r.c, "handler", "user_info", <<user_id, user_info>>)

RECURSIVE PersonaStateLoop(_, _, _)
PersonaStateLoop(c, users, i) ==
    IF c.err # "none" \/ i > Len(users) THEN c
    ELSE PersonaStateLoop(PersonaStateUser(c, users[i].fields), users, i + 1)

\* Every embedded message of the persona-state message is well formed.
PersonaStateOk(users) ==
    /\ AllOk(users)
    /\ \A i \in 1..Len(users) : AllOk(ParseEach(Repeated(users[i].fields, 71, 2)))

ProcessClientPersonaState(c, body) ==
    IF "user_info" \notin c.handlers THEN c
    ELSE LET m == ParseFromString(body)
             users == ParseEach(Repeated(m.fields, 2, 2))
         IN  IF ~m.ok \/ ~PersonaStateOk(users) THEN Raise(c, "DecodeError")
             ELSE PersonaStateLoop(c, users, 1)

License(fields) ==
    [package_id |-> Get(fields, 1, 0, 0),
     flags |-> Get(fields, 7, 0, 0),
     owner_id |-> Get(fields, 12, 0, 0)]

\* A loop that keeps every license of the message.
LicensesUnfiltered(miniprofile_id, licenses, i) ==
    [err |-> "none", list |-> [k \in 1..Len(licenses) |-> License(licenses[k].fields)]]

RECURSIVE LicensesToCheck(_, _, _)
\* The loop over message.licenses; int(None) raises TypeError.
LicensesToCheck(miniprofile_id, licenses, i) ==
    IF i > Len(licenses) THEN [err |-> "none", list |-> <<>>]
    ELSE IF miniprofile_id = None THEN [err |-> "TypeError", list |-> <<>>]
    ELSE LET license == License(licenses[i].fields)
             rest == LicensesToCheck(miniprofile_id, licenses, i + 1)
         IN  IF license.owner_id = miniprofile_id[1] /\ license.flags # JunkFlags
             THEN [rest EXCEPT !.list = <<license>> \o @]
             ELSE rest

ProcessLicenseList(c, body) ==
    IF "license_import" \notin c.handlers THEN c
    ELSE LET m == ParseFromString(body)
             licenses == ParseEach(Repeated(m.fields, 2, 2))
             r == LicensesToCheck(c.miniprofile_id, licenses, 1)
         IN  IF ~m.ok \/ ~AllOk(licenses) THEN Raise(c, "DecodeError")
             ELSE IF r.err # "none" THEN Raise(c, r.err)
             ELSE Emit(c, "handler", "license_import", <<r.list>>)

RECURSIVE PackageApps(_, _, _)
\* for app in package_content[...]['appids'], from the i-th on.
PackageApps(c, appids, i) ==
    IF c.err # "none" \/ i > Len(appids) THEN c
    ELSE PackageApps(CallHandler(c, "app_info", <<appids[i]>>), appids, i + 1)

RECURSIVE PackagesLoop(_, _, _, _)
\* for info in message.packages, from the i-th on: [c, apps_to_parse].
PackagesLoop(c, packages, i, apps_to_parse) ==
    IF c.err # "none" \/ i > Len(packages) THEN [c |-> c, apps_to_parse |-> apps_to_parse]
    ELSE
      LET packageid == Get(packages[i].fields, 1, 0, 0)
          buffer == Get(packages[i].fields, 5, 2, <<>>)
          c1 == CallHandler(c, "package_info", <<packageid>>)
          content == VdfPackageAppIds(SliceFrom(buffer, 4), packageid)
      IN  IF c1.err # "none" THEN [c |-> c1, apps_to_parse |-> apps_to_parse]
          ELSE IF packageid = 0 THEN PackagesLoop(c1, packages, i + 1, apps_to_parse)
          ELSE IF content.err # "none"
               THEN [c |-> Raise(c1, content.err), apps_to_parse |-> apps_to_parse]
          ELSE PackagesLoop(PackageApps(c1, content.appids, 1), packages, i + 1,
                            apps_to_parse \o content.appids)

RECURSIVE AppsLoop(_, _, _)
\* for info in message.apps, from the i-th on.
AppsLoop(c, apps, i) ==
    IF c.err # "none" \/ i > Len(apps) THEN c
    ELSE
      LET buffer == Get(apps[i].fields, 5, 2, <<>>)
          content == VdfApp(Slice(buffer, 0, Len(buffer) - 1))
          c1 == IF ~content.has_appid THEN Raise(c, "KeyError")
                ELSE IF content.type = 1
                THEN CallHandler(c, "app_info", <<content.appid, content.name, TRUE>>)
                ELSE CallHandler(c, "app_info", <<content.appid, FALSE>>)
      IN  AppsLoop(c1, apps, i + 1)

ProcessPackageInfoResponse(c, body) ==
    LET m == ParseFromString(body)
        packages == ParseEach(Repeated(m.fields, 3, 2))
        apps == ParseEach(Repeated(m.fields, 1, 2))
        r == PackagesLoop(c, packages, 1, <<>>)
        c1 == AppsLoop(r.c, apps, 1)
    IN  IF ~m.ok \/ ~AllOk(packages) \/ ~AllOk(apps) THEN Raise(c, "DecodeError")
        ELSE IF c1.err # "none" THEN c1
        ELSE IF Len(r.apps_to_parse) > 0 THEN GetAppsInfo(c1, r.apps_to_parse)
        ELSE c1

ProcessRichPresenceTranslations(c, body) ==
    LET m == ParseFromString(body)
    IN  IF ~m.ok THEN Raise(c, "DecodeError")
        ELSE CallHandler(c, "translations",
                         <<Get(m.fields, 1, 0, 0), Repeated(m.fields, 2, 2)>>)

RECURSIVE UnlockLoop(_, _, _, _, _, _)
\* for index, unlock_time in enumerate(achievement_block.unlock_time), from
\* the i-th on (index = i - 1): [err, log, unlocked].
UnlockLoop(schema, game, block, times, i, acc) ==
    IF acc.err # "none" \/ i > Len(times) THEN acc
    ELSE
      LET unlock_time == LEValue(times[i])
          index == i - 1
          bits == {e \in schema : e.game = game /\ e.block = block}
          bit == {e \in bits : e.bit = index}
          entry == CHOOSE e \in bit : TRUE
      IN  IF unlock_time = 0 THEN UnlockLoop(schema, game, block, times, i + 1, acc)
          ELSE IF bits = {}
               THEN [acc EXCEPT !.err = "KeyError"]
          ELSE IF bit = {}
               THEN UnlockLoop(schema, game, block, times, i + 1,
                               [acc EXCEPT !.log = Append(@, "non_existent_achievement")])
          ELSE IF entry.kind \notin {1, 2}
               THEN [acc EXCEPT !.err = "UnknownBackendResponse"]
          ELSE UnlockLoop(schema, game, block, times, i + 1,
                   [acc EXCEPT !.unlocked = Append(@,
                        [id |-> 32 * (block - 1) + index,
                         unlock_time |-> unlock_time,
                         name |-> entry.kind])])

RECURSIVE BlocksLoop(_, _, _, _, _)
\* for achievement_block in achievs, from the i-th on.
BlocksLoop(schema, game, blocks, i, acc) ==
    IF acc.err # "none" \/ i > Len(blocks) THEN acc
    ELSE BlocksLoop(schema, game, blocks, i + 1,
             UnlockLoop(schema, game, Get(blocks[i].fields, 1, 0, 0),
                        Repeated(blocks[i].fields, 2, 5), 1, acc))

RECURSIVE EmitLogs(_, _)
EmitLogs(c, logs) ==
    IF logs = <<>> THEN c ELSE EmitLogs(Log(c, Head(logs)), Tail(logs))

ProcessUserStatsResponse(c, body) ==
    LET m == ParseFromString(body)
        game_id == Get(m.fields, 1, 1, U64(0))
        stats == Repeated(m.fields, 5, 2)
        achievs == ParseEach(Repeated(m.fields, 6, 2))
        schema == VdfSchema(Get(m.fields, 4, 2, <<>>))
        r == BlocksLoop(schema, LEValue(game_id), achievs, 1,
                        [err |-> "none", log |-> <<>>, unlocked |-> <<>>])
        c1 == EmitLogs(c, r.log)
    IN  IF ~m.ok \/ ~AllOk(achievs) THEN Raise(c, "DecodeError")
        ELSE IF r.err # "none" THEN Raise(c1, r.err)
        ELSE CallHandler(c1, "stats", <<game_id, stats, r.unlocked>>)

ProcessUserTimeResponse(c, body, target_job_id) ==
    LET m == ParseFromString(body)
        your_info == ParseFromString(Get(m.fields, 1, 2, <<>>))
    IN  IF ~m.ok \/ ~your_info.ok THEN Raise(c, "DecodeError")
        ELSE CallHandler(c, "times", <<target_job_id, Get(your_info.fields, 3, 0, 0)>>)

RECURSIVE CollectEntries(_, _, _)
\* for entry in data.entries, from the i-th on: the collections dict.
CollectEntries(d, entries, i) ==
    IF i > Len(entries) THEN d
    ELSE LET loaded_val == JsonLoads(Get(entries[i].fields, 3, 2, <<>>))
         IN  CollectEntries(
                 IF loaded_val.ok THEN DictSet(d, loaded_val.name, loaded_val.added) ELSE d,
                 entries, i + 1)

RECURSIVE CollectData(_, _, _)
\* for data in message.data, from the i-th on.
CollectData(d, data, i) ==
    IF i > Len(data) THEN d
    ELSE CollectData(CollectEntries(d, ParseEach(Repeated(data[i].fields, 3, 2)), 1),
                     data, i + 1)

CollectionsOk(data) ==
    /\ AllOk(data)
    /\ \A i \in 1..Len(data) : AllOk(ParseEach(Repeated(data[i].fields, 3, 2)))

ProcessCollectionsResponse(c, body) ==
    LET m == ParseFromString(body)
        data == ParseEach(Repeated(m.fields, 1, 2))
    IN  IF ~m.ok \/ ~CollectionsOk(data) THEN Raise(c, "DecodeError")
        ELSE [c EXCEPT !.collections =
                 [event |-> TRUE,
                  collections |-> CollectData(c.collections.collections, data, 1)]]

\* A dispatcher that takes every method name for the collections download.
ProcessServiceMethodAnyName(c, target_job_name, target_job_id, body) ==
    ProcessCollectionsResponse(c, body)

ProcessServiceMethodResponse(c, target_job_name, target_job_id, body) ==
    LET c1 == IF target_job_name = NameTranslations
              THEN ProcessRichPresenceTranslations(c, body) ELSE c
        c2 == IF c1.err = "none" /\ target_job_name = NameGameTime
              THEN ProcessUserTimeResponse(c1, body, target_job_id) ELSE c1
    IN  IF c2.err = "none" /\ target_job_name = NameCollections
        THEN ProcessCollectionsResponse(c2, body) ELSE c2

(***************************************************************************)
(* _process_packet, _process_message and _process_multi.                   *)
(***************************************************************************)
RECURSIVE ProcessPacket(_, _)
RECURSIVE ProcessMessage(_, _, _, _)
RECURSIVE ProcessMulti(_, _)
RECURSIVE MultiLoop(_, _, _)

\* raw_emsg & _PROTO_MASK != 0, on the 4 bytes of the type word.
HasProtoMask(word) == word[4] >= ProtoMaskByte

\* raw_emsg & ~_PROTO_MASK
EMsgOf(word) == LEValue(<<word[1], word[2], word[3], word[4] % ProtoMaskByte>>)

\* A variant that takes the session id of every header: C4 fails for it.
NoteSessionIdOfLast(c, client_sessionid) ==
    IF client_sessionid # 0
    THEN [Log(c, "session_id") EXCEPT !.session_id = Some(client_sessionid)]
    ELSE c

\* if self._session_id is None and header.client_sessionid != 0
NoteSessionId(c, client_sessionid) ==
    IF c.session_id = None /\ client_sessionid # 0
    THEN [Log(c, "session_id") EXCEPT !.session_id = Some(client_sessionid)]
    ELSE c

\* A variant that counts only the first word of the frame: C6 fails for it.
TooSmallForWord(packet) == Len(packet) < SizeBytes

\* if package_size < 8
TooSmall(packet) == Len(packet) < MinPacketSize

\* The structured frame with its header parsed.
ProcessStructured(c, emsg, header, body) ==
    IF ~header.ok THEN Raise(c, "DecodeError")
    ELSE ProcessMessage(NoteSessionId(c, Get(header.fields, 2, 0, 0)), emsg,
                        header.fields, body)

\* The frame after its first word: header_len is the second word.
\* header.ParseFromString(packet[8:8 + header_len])
DecodeHeader(packet, header_len) == ParseFromString(Slice(packet, 8, 8 + header_len))

\* A body that starts where the header does.
DecodeBodyWithHeader(packet, header_len) == SliceFrom(packet, 8)

\* packet[8 + header_len:]
DecodeBody(packet, header_len) == SliceFrom(packet, 8 + header_len)

\* What _process_packet reads in a frame of 8 bytes or more before it
\* dispatches: the flag bit, the message type, the header and the body.
Decode(packet) ==
    [flagged |-> HasProtoMask(Slice(packet, 0, 4)),
     emsg |-> EMsgOf(Slice(packet, 0, 4)),
     header |-> DecodeHeader(packet, LEValue(Slice(packet, 4, 8))),
     body |-> DecodeBody(packet, LEValue(Slice(packet, 4, 8)))]

ProcessFlagged(c, emsg, packet, header_len) ==
    ProcessStructured(c, emsg, DecodeHeader(packet, header_len),
                      DecodeBody(packet, header_len))

\* The frame from struct.unpack("<I", packet[:4]) on, word = packet[:4].
ProcessWord(c, packet, word) ==
    IF ~UnpackOk(word) THEN Raise(c, "struct.error")
    ELSE IF HasProtoMask(word)
    THEN IF ~UnpackOk(Slice(packet, 4, 8)) THEN Raise(c, "struct.error")
         ELSE ProcessFlagged(c, EMsgOf(word), packet, LEValue(Slice(packet, 4, 8)))
    ELSE Log(c, "extended_header")

ProcessPacket(c, packet) ==
    ProcessWord(IF TooSmall(packet)
                THEN Log(Emit(c, "packet", "process", packet), "too_small")
                ELSE Emit(c, "packet", "process", packet),
                packet, Slice(packet, 0, 4))

ProcessMessage(c, emsg, header, body) ==
    LET c1 == Emit(c, "message", "dispatch", emsg)
    IN  CASE emsg = EMsgMulti -> ProcessMulti(c1, body)
          [] emsg = EMsgClientLogOnResponse -> ProcessClientLogOnResponse(c1, body)
          [] emsg = EMsgClientLogOff -> ProcessClientLogOff(c1, body)
          [] emsg = EMsgClientFriendsList -> ProcessClientFriendList(c1, body)
          [] emsg = EMsgClientPersonaState -> ProcessClientPersonaState(c1, body)
          [] emsg = EMsgClientLicenseList -> ProcessLicenseList(c1, body)
          [] emsg = EMsgPICSProductInfoResponse -> ProcessPackageInfoResponse(c1, body)
          [] emsg = EMsgClientGetUserStatsResponse -> ProcessUserStatsResponse(c1, body)
          [] emsg \in {EMsgServiceMethod, EMsgServiceMethodResponse} ->
                 ProcessServiceMethodResponse(c1, Get(header, 12, 2, <<>>),
                                              Get(header, 11, 1, U64Max), body)
          [] OTHER -> Log(c1, "ignored_message")

\* The container with its payload decompressed.
ProcessUnzipped(c, unzipped) ==
    IF unzipped.err # "none" THEN Raise(c, unzipped.err)
    ELSE MultiLoop(c, unzipped.data, 0)

\* The container with its message parsed.
ProcessMultiMessage(c, message) ==
    IF ~message.ok THEN Raise(c, "DecodeError")
    ELSE IF Get(message.fields, 1, 0, 0) > 0
    THEN ProcessUnzipped(c, GzipDecompress(Get(message.fields, 2, 2, <<>>)))
    ELSE MultiLoop(c, Get(message.fields, 2, 2, <<>>), 0)

ProcessMulti(c, body) == ProcessMultiMessage(c, ParseFromString(body))

\* One pass of the loop: the record of the announced size at offset.
MultiRecord(c, data, offset, size) ==
    MultiLoop(ProcessPacket(c, Slice(data, offset + SizeBytes, offset + SizeBytes + size)),
              data, offset + SizeBytes + size)

\* while offset + size_bytes <= data_size
MultiLoop(c, data, offset) ==
    IF c.err # "none" THEN c
    ELSE IF offset + SizeBytes <= Len(data)
    THEN MultiRecord(c, data, offset, LEValue(Slice(data, offset, offset + SizeBytes)))
    ELSE Log(c, "multi_finished")

(***************************************************************************)
(* The inbound frames of the model: what the peer may send.  Each is built *)
(* as bytes; the malformed ones are cut or altered well-formed frames.     *)
(***************************************************************************)
\* A 64-bit id of account type t (bits 52..55), instance 1, universe 1.
SteamIdOf(account, t) == <<account, 0, 0, 0, 1, 0, 16 * t, 1>>

OwnSteamId == SteamIdOf(5, EAccountTypeIndividual)

FriendSteamId == SteamIdOf(6, EAccountTypeIndividual)

ClanSteamId == SteamIdOf(9, 7)

MiniprofileIds == {42}

OwnMiniprofileId == CHOOSE m \in MiniprofileIds : TRUE

\* A structured frame from the serialized header and body.
Packet(emsg, header, message) ==
    Frame(emsg, SerializeToString(header), SerializeToString(message))

\* The header the peer stamps: the principal id and, when nonzero, a session id.
PeerHeader(sid) ==
    <<Field(1, 1, OwnSteamId)>> \o (IF sid # 0 THEN <<Field(2, 0, sid)>> ELSE <<>>)

\* A record of a container's payload: the length word and the frame.
Record(frame) == LEBytes(Len(frame), 4) \o frame

RECURSIVE Records(_)
Records(frames) ==
    IF frames = <<>> THEN <<>> ELSE Record(Head(frames)) \o Records(Tail(frames))

\* A container frame; size_unzipped = 0 and the payload plain, or
\* size_unzipped = the payload's length and the payload gzipped.
MultiPlain(payload) == Packet(EMsgMulti, <<>>, <<Field(1, 0, 0), Field(2, 2, payload)>>)

MultiZipped(payload) ==
    Packet(EMsgMulti, <<>>,
           <<Field(1, 0, Len(payload)), Field(2, 2, GzipCompress(payload))>>)

LogOnOK(sid, interval) ==
    Packet(EMsgClientLogOnResponse, PeerHeader(sid),
           <<Field(1, 0, EResultOK), Field(2, 0, interval)>>)

\* A logon response with result 5 (a failure); its interval is not used.
LogOnFailed == Packet(EMsgClientLogOnResponse, PeerHeader(0), <<Field(1, 0, 5), Field(2, 0, 1)>>)

LoggedOff == Packet(EMsgClientLogOff, PeerHeader(2), <<Field(1, 0, EResultOK)>>)

\* A well-formed frame of a message type the dispatcher does not know.
UnknownMessage == Packet(9999, PeerHeader(2), <<Field(1, 0, 1)>>)

\* A frame without the flag bit (an "extended header" frame).
Unstructured == LEBytes(EMsgClientLogOff, 4) \o <<0, 0, 0, 0, 1, 2, 3, 4>>

\* A frame whose header length announces more bytes than the frame holds.
HeaderTooLong == PackEMsg(EMsgClientLogOnResponse) \o LEBytes(6, 4) \o <<16, 1>>

FriendsList ==
    Packet(EMsgClientFriendsList, PeerHeader(1),
           <<Field(1, 0, 1),
             Field(2, 2, SerializeToString(<<Field(1, 1, FriendSteamId), Field(2, 0, 3)>>)),
             Field(2, 2, SerializeToString(<<Field(1, 1, ClanSteamId), Field(2, 0, 3)>>))>>)

\* The own entry playing app 7 with a presence status to localize ("#t"),
\* then a friend's entry.
PersonaState ==
    Packet(EMsgClientPersonaState, PeerHeader(1),
           <<Field(2, 2, SerializeToString(
                 <<Field(1, 1, OwnSteamId), Field(2, 0, 1), Field(3, 0, 7),
                   Field(15, 2, <<104, 105>>), Field(56, 1, U64(7)),
                   Field(71, 2, SerializeToString(
                       <<Field(1, 2, KeyStatus), Field(2, 2, <<CharHash, 116>>)>>))>>)),
             Field(2, 2, SerializeToString(
                 <<Field(1, 1, FriendSteamId), Field(2, 0, 0), Field(3, 0, 8)>>))>>)

\* The own user and a friend, neither in a game.
PersonaStateIdle ==
    Packet(EMsgClientPersonaState, PeerHeader(1),
           <<Field(2, 2, SerializeToString(
                 <<Field(1, 1, OwnSteamId), Field(2, 0, 1), Field(3, 0, 0)>>)),
             Field(2, 2, SerializeToString(
                 <<Field(1, 1, FriendSteamId), Field(2, 0, 1)>>))>>)

LicenseEntry(package_id, owner_id, flags) ==
    Field(2, 2, SerializeToString(
        <<Field(1, 0, package_id), Field(7, 0, flags), Field(12, 0, owner_id)>>))

LicenseList ==
    Packet(EMsgClientLicenseList, PeerHeader(1),
           <<LicenseEntry(1, OwnMiniprofileId, 0),
             LicenseEntry(2, OwnMiniprofileId, JunkFlags),
             LicenseEntry(3, 99, 0)>>)

\* Package 0 (skipped), package 3 holding app 7, and app 7, a game named 1.
PackageInfo ==
    Packet(EMsgPICSProductInfoResponse, PeerHeader(1),
           <<Field(3, 2, SerializeToString(<<Field(1, 0, 0)>>)),
             Field(3, 2, SerializeToString(
                 <<Field(1, 0, 3), Field(5, 2, <<0, 0, 0, 0, 3, 7>>)>>)),
             Field(1, 2, SerializeToString(
                 <<Field(1, 0, 7), Field(5, 2, <<7, 1, 1, 0>>)>>))>>)

\* Game 7, block 1: bit 0 unlocked and in the schema, bit 1 locked, bit 2
\* unlocked and missing from the schema.
UserStats ==
    Packet(EMsgClientGetUserStatsResponse, PeerHeader(1),
           <<Field(1, 1, U64(7)), Field(2, 0, 1), Field(4, 2, <<7, 1, 0, 1>>),
             Field(6, 2, SerializeToString(
                 <<Field(1, 0, 1), Field(2, 5, LEBytes(9, 4)), Field(2, 5, LEBytes(0, 4)),
                   Field(2, 5, LEBytes(9, 4))>>))>>)

ServiceMethod(emsg, name, target_job_id, message) ==
    Packet(emsg, PeerHeader(1) \o <<Field(11, 1, U64(target_job_id)), Field(12, 2, name)>>,
           message)

Translations ==
    ServiceMethod(EMsgServiceMethodResponse, NameTranslations, 1,
                  <<Field(1, 0, 7), Field(2, 2, <<1>>)>>)

GameTime ==
    ServiceMethod(EMsgServiceMethodResponse, NameGameTime, 7,
                  <<Field(1, 2, SerializeToString(<<Field(3, 0, 90)>>))>>)

\* One chunk of the collections download: a collection named c, and an
\* entry that is no JSON.
CollectionsChunk(c) ==
    ServiceMethod(EMsgServiceMethodResponse, NameCollections, 2,
                  <<Field(1, 2, SerializeToString(
                        <<Field(1, 0, 1),
                          Field(3, 2, SerializeToString(<<Field(3, 2, <<123, c, 1, 125>>)>>)),
                          Field(3, 2, SerializeToString(<<Field(3, 2, <<c>>)>>))>>))>>)

\* A service-method message naming a method the dispatcher does not route.
UnknownMethod ==
    ServiceMethod(EMsgServiceMethod, NameFriendPersonaStates, 1, <<Field(1, 0, 1)>>)

\* The first n bytes of a frame.
CutTo(frame, n) == Slice(frame, 0, n)

ShortPackets ==
    {<<>>, CutTo(LoggedOff, 3), CutTo(LoggedOff, 4), CutTo(LogOnOK(1, 1), 7),
     CutTo(Unstructured, 6)}

UnknownPackets == {UnknownMessage, UnknownMethod}

\* The sub-frame lists of the containers of the model.
SubFrameLists ==
    {<<LogOnOK(1, 1), LoggedOff>>, <<LoggedOff, LogOnFailed>>, <<LogOnFailed>>,
     <<UnknownMessage, LogOnFailed, LogOnOK(2, 2)>>}

\* A payload ending in an incomplete record: too few bytes for a length
\* word, or a length word announcing more bytes than remain.
DanglingPayloads ==
    {Records(<<LogOnFailed>>) \o <<1, 0>>,
     LEBytes(Len(LogOnFailed), 4) \o CutTo(LogOnFailed, Len(LogOnFailed) - 2)}

Containers ==
    {MultiPlain(Records(fs)) : fs \in SubFrameLists}
    \cup {MultiZipped(Records(fs)) : fs \in SubFrameLists}
    \cup {MultiPlain(p) : p \in DanglingPayloads}
    \cup {MultiPlain(Records(<<CutTo(LoggedOff, 3), LogOnFailed>>)),
          MultiPlain(Records(<<MultiPlain(Records(<<LogOnFailed>>)), LogOnFailed>>)),
          Packet(EMsgMulti, <<>>, <<Field(1, 0, 4), Field(2, 2, <<1, 2, 3, 4>>)>>)}

SessionPackets == {LogOnOK(1, 1), LogOnOK(2, 2), LogOnFailed, LoggedOff}

\* A license-list message of the entries <<package_id, owner_id, flags>>.
LicenseListOf(entries) ==
    Packet(EMsgClientLicenseList, PeerHeader(1),
           [i \in 1..Len(entries) |->
               LicenseEntry(entries[i][1], entries[i][2], entries[i][3])])

\* No entry; no entry to forward; one of three; two of four, apart.
LicenseLists ==
    {<<>>,
     <<<<2, OwnMiniprofileId, JunkFlags>>, <<3, 99, 0>>>>,
     <<<<1, OwnMiniprofileId, 0>>, <<2, OwnMiniprofileId, JunkFlags>>, <<3, 99, 0>>>>,
     <<<<1, OwnMiniprofileId, 0>>, <<2, OwnMiniprofileId, JunkFlags>>, <<3, 99, 0>>,
       <<4, OwnMiniprofileId, 1024>>>>}

EventPackets ==
    {FriendsList, PersonaState, PersonaStateIdle, LicenseList, PackageInfo, UserStats,
     Translations, GameTime, CollectionsChunk(1), CollectionsChunk(2)}
    \cup {LicenseListOf(entries) : entries \in LicenseLists}

MalformedPackets ==
    ShortPackets \cup {Unstructured, HeaderTooLong} \cup UnknownPackets \cup {LogOnFailed}

\* A run of the model draws its inbound frames from one of these families.
Families == {SessionPackets, EventPackets, MalformedPackets, Containers}

(***************************************************************************)
(* The state: the client's fields, the heartbeat tasks and the clock, the  *)
(* run loop's position, and what the last step did.                        *)
(*                                                                         *)
(* run_pc is where run() stands: "drain" at the top of the while loop,     *)
(* "recv" suspended in the bounded wait on the socket, "process" holding   *)
(* the packet the socket returned, "failed" once an exception left run().  *)
(* The loop is cooperative: the heartbeat tasks and the callers of the     *)
(* other methods run while run() is suspended in the wait.  The deferred   *)
(* job queue is not appended to in this model, so the drain pass of the    *)
(* loop finds job_list empty.                                              *)
(*                                                                         *)
(* last is an observation, not a field: the step taken last, its input,    *)
(* the calls it made and the exception it ended with.  heartbeat_off is an *)
(* observation too: a logoff or close() cancelled the heartbeat and no     *)
(* successful logon response came after it.                                *)
(***************************************************************************)
VARIABLES
    handlers,          \* the handler attributes that are not None
    steam_id,          \* _steam_id
    miniprofile_id,    \* _miniprofile_id
    heartbeat_task,    \* _heartbeat_task: None or the index of a task
    session_id,        \* _session_id
    collections,       \* collections: [event, collections]
    tasks,             \* the heartbeat tasks created so far
    run_pc,            \* the position of run()
    run_err,           \* the exception that ended run()
    packet,            \* the packet run() holds
    inbound,           \* the frames the peer sends in this run (an input)
    heartbeat_off,     \* a logoff or close() came and no successful logon after it
    job_list,          \* job_list: the deferred jobs, oldest first
    job_id,            \* the value next(self._job_id_iterator) returns next
    snapshot,          \* what the pass of run() has left of job_list.copy()
    job_pc,            \* the position of the pass inside the job it handles
    codec,             \* a frame under encoding and decoding (SpecCodec only)
    calls,             \* the source job ids of the service-method calls sent (SpecCalls only)
    last               \* the last step: [op, arg, ev, err], ev the calls it made

jobvars == <<job_list, job_id, snapshot, job_pc>>

vars == <<handlers, steam_id, miniprofile_id, heartbeat_task, session_id, collections,
          tasks, run_pc, run_err, packet, inbound, heartbeat_off, jobvars, codec, calls,
          last>>

AllHandlers ==
    {"log_on", "log_off", "relationship", "user_info", "license_import", "app_info",
     "package_info", "translations", "stats", "times"}

\* The handlers the surrounding layer registers, when it registers any.
HandlerConfigs == {AllHandlers}

Step(op, arg, ev, err) == [op |-> op, arg |-> arg, ev |-> ev, err |-> err]

\* The client at the start of an operation whose failAt-th send fails.
Self(failAt) ==
    [handlers |-> handlers, steam_id |-> steam_id, miniprofile_id |-> miniprofile_id,
     heartbeat_task |-> heartbeat_task, session_id |-> session_id,
     collections |-> collections, tasks |-> tasks,
     ev |-> <<>>, err |-> "none", sends |-> 0, failAt |-> failAt]

\* No frame is under encoding.
CodecIdle ==
    [stage |-> "idle", emsg |-> 0, header |-> <<>>, body |-> <<>>, data |-> <<>>,
     out |-> [flagged |-> FALSE, emsg |-> 0, header |-> ParseFail, body |-> <<>>]]

\* No service-method call has been sent; the source job ids of the calls are
\* recorded when recording is TRUE.
NoCalls(recording) == [recording |-> recording, sent |-> {}, reused |-> {}]

\* __init__, and the surrounding layer has assigned the handlers hs.
Constructed(hs) ==
    /\ handlers = hs
    /\ steam_id = None
    /\ miniprofile_id = None
    /\ heartbeat_task = None
    /\ session_id = None
    /\ collections = [event |-> FALSE, collections |-> <<>>]
    /\ tasks = <<>>
    /\ run_pc = "drain"
    /\ run_err = "none"
    /\ packet = None
    /\ heartbeat_off = FALSE
    /\ job_list = <<>>
    /\ job_id = 1
    /\ snapshot = <<>>
    /\ job_pc = "stats"
    /\ codec = CodecIdle
    /\ last = Step("init", <<>>, <<>>, "none")

Init ==
    /\ Constructed({})
    /\ inbound \in Families
    /\ calls = NoCalls(FALSE)

\* The concurrent activities run while run() waits on the socket, awaits the
\* send of a job, or has ended.
Suspended == run_pc \in {"recv", "job", "failed"}

\* The surrounding layer assigns the handler attributes.
SetHandlers(hs) ==
    /\ handlers = {}
    /\ last.op = "init"
    /\ handlers' = hs
    /\ last' = Step("set_handlers", <<>>, <<>>, "none")
    /\ UNCHANGED <<steam_id, miniprofile_id, heartbeat_task, session_id, collections,
                   tasks, run_pc, run_err, packet, inbound, heartbeat_off, jobvars,
                   codec, calls>>

\* log_on(steam_id, miniprofile_id, account_name, token); of the logon
\* message only the protocol version is modelled.
LogOn(failAt) ==
    /\ Suspended
    /\ LET c == [Self(failAt) EXCEPT !.steam_id = Some(OwnSteamId),
                                     !.miniprofile_id = Some(OwnMiniprofileId)]
           r == Send(c, EMsgClientLogon, <<Field(1, 0, 65580)>>, None, None, None)
       IN  /\ steam_id' = IF r.err = "none" THEN r.steam_id ELSE None
           /\ miniprofile_id' = r.miniprofile_id
           /\ last' = Step("log_on", <<>>, r.ev, r.err)
    /\ UNCHANGED <<handlers, heartbeat_task, session_id, collections, tasks,
                   run_pc, run_err, packet, inbound, heartbeat_off, jobvars, codec, calls>>

\* close()
Close ==
    /\ Suspended
    /\ LET c == Self(0)
           r == IF heartbeat_task # None THEN TaskCancel(c, heartbeat_task[1]) ELSE c
       IN  /\ tasks' = r.tasks
           /\ last' = Step("close", <<>>, r.ev, r.err)
    /\ heartbeat_off' = TRUE
    /\ UNCHANGED <<handlers, steam_id, miniprofile_id, heartbeat_task, session_id,
                   collections, run_pc, run_err, packet, inbound, jobvars, codec, calls>>

\* run(): the pass starts on job_list.copy(); with no job it is over at once
\* and run() waits on the socket.
Drain ==
    /\ run_pc = "drain"
    /\ snapshot' = job_list
    /\ job_pc' = "stats"
    /\ run_pc' = IF job_list = <<>> THEN "recv" ELSE "job"
    /\ last' = Step("drain", <<>>, <<>>, "none")
    /\ UNCHANGED <<handlers, steam_id, miniprofile_id, heartbeat_task, session_id,
                   collections, tasks, run_err, packet, inbound, heartbeat_off,
                   job_list, job_id, codec, calls>>

\* run(): asyncio.wait_for(self._socket.recv(), 0.1) returns a packet.
Recv(p) ==
    /\ run_pc = "recv"
    /\ run_pc' = "process"
    /\ packet' = Some(p)
    /\ last' = Step("recv", <<>>, <<>>, "none")
    /\ UNCHANGED <<handlers, steam_id, miniprofile_id, heartbeat_task, session_id,
                   collections, tasks, run_err, inbound, heartbeat_off, jobvars,
                   codec, calls>>

\* run(): the wait times out (asyncio.TimeoutError is passed over).
RecvTimeout ==
    /\ run_pc = "recv"
    /\ last.op # "drain"
    /\ run_pc' = "drain"
    /\ last' = Step("timeout", <<>>, <<>>, "none")
    /\ UNCHANGED <<handlers, steam_id, miniprofile_id, heartbeat_task, session_id,
                   collections, tasks, run_err, packet, inbound, heartbeat_off, jobvars,
                   codec, calls>>

\* Whether the heartbeat is off after the calls ev: the last task created or
\* cancelled decides.
RECURSIVE HeartbeatOffAfter(_, _)
HeartbeatOffAfter(off, ev) ==
    IF ev = <<>> THEN off
    ELSE LET e == ev[Len(ev)]
         IN  IF e.type = "task" THEN e.name = "cancel"
             ELSE HeartbeatOffAfter(off, SubSeq(ev, 1, Len(ev) - 1))

\* run(): await self._process_packet(packet); an exception leaves run().
Process(failAt) ==
    /\ run_pc = "process"
    /\ LET r == ProcessPacket(Self(failAt), packet[1])
       IN  /\ Len(r.tasks) <= MaxTasks
           /\ failAt <= r.sends
           /\ heartbeat_task' = r.heartbeat_task
           /\ session_id' = r.session_id
           /\ collections' = r.collections
           /\ tasks' = r.tasks
           /\ run_pc' = IF r.err = "none" THEN "drain" ELSE "failed"
           /\ run_err' = r.err
           /\ heartbeat_off' = HeartbeatOffAfter(heartbeat_off, r.ev)
           /\ last' = Step("process", packet[1], r.ev, r.err)
    /\ packet' = None
    /\ UNCHANGED <<handlers, steam_id, miniprofile_id, inbound, jobvars, codec, calls>>

Sleeping(task) == task.status = "sleeping"

\* A second passes for the sleeping tasks; a task whose sleep is over runs
\* first.
Tick ==
    /\ Suspended
    /\ \E i \in 1..Len(tasks) : Sleeping(tasks[i])
    /\ \A i \in 1..Len(tasks) :
           Sleeping(tasks[i]) => tasks[i].slept < tasks[i].interval
    /\ tasks' = [i \in 1..Len(tasks) |->
                    IF Sleeping(tasks[i])
                    THEN [tasks[i] EXCEPT !.slept = @ + 1]
                    ELSE tasks[i]]
    /\ last' = Step("tick", <<>>, <<>>, "none")
    /\ UNCHANGED <<handlers, steam_id, miniprofile_id, heartbeat_task, session_id,
                   collections, run_pc, run_err, packet, inbound, heartbeat_off, jobvars,
                   codec, calls>>

\* _heartbeat: the sleep of task i is over; it sends the keep-alive and
\* sleeps again, or ends with the exception of the send.
Heartbeat(i, failAt) ==
    /\ Suspended
    /\ i \in 1..Len(tasks)
    /\ Sleeping(tasks[i])
    /\ tasks[i].slept >= tasks[i].interval
    /\ LET r == Send(Self(failAt), EMsgClientHeartBeat, <<>>, None, None, None)
       IN  /\ tasks' = [tasks EXCEPT ![i] = HeartbeatSent(tasks[i], r.err)]
           /\ last' = Step("heartbeat", i, r.ev, r.err)
    /\ UNCHANGED <<handlers, steam_id, miniprofile_id, heartbeat_task, session_id,
                   collections, run_pc, run_err, packet, inbound, heartbeat_off, jobvars,
                   codec, calls>>

Next ==
    \/ \E hs \in HandlerConfigs : SetHandlers(hs)
    \/ \E failAt \in 0..1 : LogOn(failAt)
    \/ Close
    \/ Drain
    \/ \E p \in inbound : Recv(p)
    \/ RecvTimeout
    \/ \E failAt \in 0..1 : Process(failAt)
    \/ Tick
    \/ \E i \in 1..MaxTasks, failAt \in 0..1 : Heartbeat(i, failAt)

Spec == Init /\ [][Next]_vars

(***************************************************************************)
(* What a step did, read from its calls.                                   *)
(***************************************************************************)
\* The step called handler h with args.
Called(ev, h, args) ==
    \E i \in 1..Len(ev) : ev[i].type = "handler" /\ ev[i].name = h /\ ev[i].arg = args

\* The handler calls, the socket sends and the packets handed to
\* _process_packet, each in order.
HandlerCalls(ev) == SelectSeq(ev, LAMBDA e : e.type = "handler")

Sends(ev) == SelectSeq(ev, LAMBDA e : e.type = "send")

PacketsHanded(ev) ==
    LET ps == SelectSeq(ev, LAMBDA e : e.type = "packet")
    IN  [i \in 1..Len(ps) |-> ps[i].arg]

Logged(ev, what) == \E i \in 1..Len(ev) : ev[i].type = "log" /\ ev[i].name = what

\* run() has just processed packet p.
Processed(p) == last.op = "process" /\ last.arg = p

\* The keep-alive frame a heartbeat task sends in the current state.
HeartbeatFrame ==
    Frame(EMsgClientHeartBeat,
          SerializeToString(SendHeader(Self(0), None, None, None)), <<>>)

(***************************************************************************)
(* C1: cancelling the heartbeat is always safe: a logoff message, or       *)
(* close(), with no heartbeat started or with the heartbeat already        *)
(* cancelled raises no error, and the logoff handler is still called with  *)
(* the result code.                                                        *)
(***************************************************************************)
C1_CancelAlwaysSafe ==
    /\ last.op = "close" => last.err = "none"
    /\ Processed(LoggedOff) =>
           /\ last.err = "none"
           /\ "log_off" \in handlers => Called(last.ev, "log_off", <<EResultOK>>)

(***************************************************************************)
(* C2: once a logoff was processed or close() was called, no heartbeat is  *)
(* sent until a later successful logon response.                           *)
(***************************************************************************)
C2_NoHeartbeatAfterStop == ~(last.op = "heartbeat" /\ heartbeat_off)

(***************************************************************************)
(* C3: a successful logon response starts a heartbeat task that sleeps the *)
(* interval of the response before each keep-alive: the task starts at the *)
(* beginning of its sleep, a second of the clock adds one second to the    *)
(* sleep, a keep-alive is sent exactly when the whole interval has been    *)
(* slept, never before it and never later, and the task then sleeps again. *)
(* A failed logon response starts no task.  In both cases the logon        *)
(* handler, when set, is called with the result code.                      *)
(***************************************************************************)
LogOnStep ==
    /\ \A n \in {1, 2} :
           Processed(LogOnOK(n, n))' =>
               /\ last'.err = "none"
               /\ tasks' = Append(tasks, [interval |-> n, slept |-> 0, status |-> "sleeping"])
               /\ heartbeat_task' = Some(Len(tasks) + 1)
               /\ "log_on" \in handlers => Called(last'.ev, "log_on", <<EResultOK>>)
    /\ Processed(LogOnFailed)' =>
           /\ last'.err = "none"
           /\ tasks' = tasks
           /\ heartbeat_task' = heartbeat_task
           /\ Sends(last'.ev) = <<>>
           /\ "log_on" \in handlers => Called(last'.ev, "log_on", <<5>>)

HeartbeatStep ==
    last'.op = "heartbeat" =>
        LET i == last'.arg
        IN  /\ Sleeping(tasks[i])
            /\ tasks[i].interval > 0
            /\ tasks[i].slept = tasks[i].interval
            /\ Len(last'.ev) = 1
            /\ last'.ev[1].type = "send"
            /\ last'.ev[1].arg = HeartbeatFrame
            /\ last'.err = "none" =>
                   tasks' = [tasks EXCEPT ![i] = [tasks[i] EXCEPT !.slept = 0]]

TickStep ==
    last'.op = "tick" =>
        \A i \in 1..Len(tasks) :
            Sleeping(tasks[i]) =>
                /\ tasks[i].slept < tasks[i].interval
                /\ tasks'[i] = [tasks[i] EXCEPT !.slept = @ + 1]

C3_HeartbeatPeriodic ==
    /\ [](\A i \in 1..Len(tasks) :
              Sleeping(tasks[i]) => tasks[i].slept <= tasks[i].interval)
    /\ [][LogOnStep /\ HeartbeatStep /\ TickStep]_vars

\* A task created for an interval of 2 seconds has sent a keep-alive and
\* sleeps again.
C3_Witness ==
    /\ last.op = "heartbeat"
    /\ last.err = "none"
    /\ tasks[last.arg].interval = 2
    /\ tasks[last.arg] = [interval |-> 2, slept |-> 0, status |-> "sleeping"]

(***************************************************************************)
(* C4: the session id is sticky: it is adopted from the header of an       *)
(* inbound structured frame only while none is known and the header's      *)
(* value is nonzero; once set no step changes it, and it is never zero.    *)
(***************************************************************************)
\* The client_sessionid of the header of a structured frame of 8 bytes or more.
HeaderSessionId(p) ==
    Get(ParseFromString(Slice(p, 8, 8 + LEValue(Slice(p, 4, 8)))).fields, 2, 0, 0)

Structured(p) ==
    /\ Len(p) >= 8
    /\ p[4] >= ProtoMaskByte
    /\ ParseFromString(Slice(p, 8, 8 + LEValue(Slice(p, 4, 8)))).ok

SessionIdStep ==
    /\ session_id # None => session_id' = session_id
    /\ session_id' # session_id =>
           /\ last'.op = "process"
           /\ Logged(last'.ev, "session_id")
    /\ (last'.op = "process" /\ session_id = None /\ Structured(last'.arg)) =>
           LET sid == HeaderSessionId(last'.arg)
           IN  IF sid # 0 THEN session_id' = Some(sid)
               ELSE last'.arg \notin Containers => session_id' = None

C4_SessionIdSticky ==
    /\ [](session_id # Some(0))
    /\ [][SessionIdStep]_vars

\* A frame carrying session id 2 was processed while session id 1 was known.
C4_Witness ==
    /\ session_id = Some(1)
    /\ last.op = "process"
    /\ Structured(last.arg)
    /\ HeaderSessionId(last.arg) = 2

(***************************************************************************)
(* C5: malformed or unknown input never aborts the run loop: after a frame *)
(* shorter than 8 bytes, an unstructured frame, a container with a         *)
(* dangling partial record or a frame of an unknown message type or method *)
(* name, run() is still running.                                           *)
(***************************************************************************)
MalformedOrUnknown ==
    ShortPackets \cup {Unstructured} \cup UnknownPackets
    \cup {MultiPlain(p) : p \in DanglingPayloads}

C5_MalformedNeverAborts ==
    (last.op = "process" /\ last.arg \in MalformedOrUnknown) => run_pc # "failed"

(***************************************************************************)
(* C6: a frame shorter than 8 bytes, received from the socket or unpacked  *)
(* from a container, is reported as too small; no handler is called for    *)
(* it, nothing is sent because of it and it leaves the session id, the     *)
(* heartbeat tasks and the collections as they were.                       *)
(***************************************************************************)
\* The index of the first packet handed to _process_packet after event i,
\* or one past the last event.
RECURSIVE NextPacket(_, _)
NextPacket(ev, i) ==
    IF i >= Len(ev) THEN Len(ev) + 1
    ELSE IF ev[i + 1].type = "packet" THEN i + 1
    ELSE NextPacket(ev, i + 1)

ShortFrameQuiet(ev) ==
    \A i \in 1..Len(ev) :
        (ev[i].type = "packet" /\ Len(ev[i].arg) < MinPacketSize) =>
            /\ i < Len(ev)
            /\ ev[i + 1].type = "log"
            /\ ev[i + 1].name = "too_small"
            /\ \A k \in (i + 1)..(NextPacket(ev, i) - 1) :
                   /\ ev[k].type = "log"
                   /\ ev[k].name \in {"too_small", "extended_header", "multi_finished"}

ShortFrameStep ==
    (last'.op = "process" /\ Len(last'.arg) < MinPacketSize) =>
        /\ session_id' = session_id
        /\ tasks' = tasks
        /\ heartbeat_task' = heartbeat_task
        /\ collections' = collections
        /\ steam_id' = steam_id
        /\ miniprofile_id' = miniprofile_id

C6_ShortFrameReported ==
    /\ [](last.op = "process" => ShortFrameQuiet(last.ev))
    /\ [][ShortFrameStep]_vars

\* A frame of 4 to 7 bytes was processed and reported.
C6_Witness ==
    /\ last.op = "process"
    /\ Len(last.arg) \in 4..7
    /\ Logged(last.ev, "too_small")

(***************************************************************************)
(* C7: a handler left unset is a no-op for every class of event: with no   *)
(* handler set, a well-formed inbound message is processed without error   *)
(* and without a handler call.                                             *)
(***************************************************************************)
WellFormedEvents == EventPackets \cup {LogOnOK(1, 1), LogOnOK(2, 2), LogOnFailed}

C7_UnsetHandlerNoOp ==
    (last.op = "process" /\ last.arg \in WellFormedEvents /\ handlers = {}) =>
        /\ last.err = "none"
        /\ HandlerCalls(last.ev) = <<>>

(***************************************************************************)
(* C8: a heartbeat whose send fails is not retried, and its error reaches  *)
(* the run loop: run() ends with that error.                               *)
(***************************************************************************)
C8_HeartbeatErrorReachesRun ==
    (last.op = "heartbeat" /\ last.err # "none") =>
        /\ tasks[last.arg].status = "failed"
        /\ run_pc = "failed"
        /\ run_err = last.err

(***************************************************************************)
(* C9: unpacking a container that holds N length-prefixed sub-frames hands *)
(* exactly those N sub-frames, unchanged and in their order, to the frame  *)
(* decoder, and each is dispatched; the same for a plain and for a         *)
(* compressed payload.                                                     *)
(***************************************************************************)
Dispatches(ev) == SelectSeq(ev, LAMBDA e : e.type = "message")

C9_ContainerDispatchesAll ==
    \A fs \in SubFrameLists :
        (Processed(MultiPlain(Records(fs))) \/ Processed(MultiZipped(Records(fs)))) =>
            /\ PacketsHanded(last.ev) = <<last.arg>> \o fs
            /\ Len(Dispatches(last.ev)) = 1 + Len(fs)

\* The splitting alone: the sub-frames handed to the decoder are a prefix
\* of the container's, and all of them unless one of them raised.
C9_SplitUntilRaise ==
    \A fs \in SubFrameLists :
        (Processed(MultiPlain(Records(fs))) \/ Processed(MultiZipped(Records(fs)))) =>
            LET handed == Tail(PacketsHanded(last.ev))
            IN  /\ Len(handed) <= Len(fs)
                /\ handed = SubSeq(fs, 1, Len(handed))
                /\ last.err = "none" => handed = fs

(***************************************************************************)
(* C10: a container payload that ends in an incomplete record (fewer bytes *)
(* than a length word, or a length word announcing more bytes than remain) *)
(* is reported as malformed, and the incomplete record is never handed to  *)
(* the frame decoder.                                                      *)
(***************************************************************************)
C10_DanglingRecordReported ==
    \A p \in DanglingPayloads :
        Processed(MultiPlain(p)) =>
            /\ last.err # "none" \/ Logged(last.ev, "malformed_container")
            /\ \A i \in 2..Len(PacketsHanded(last.ev)) :
                   PacketsHanded(last.ev)[i] = LogOnFailed

\* The step called handler h, with whatever arguments.
CalledHandler(ev, h) ==
    \E i \in 1..Len(ev) : ev[i].type = "handler" /\ ev[i].name = h

(***************************************************************************)
(* C11: a user-stats response with an achievement bit that has a nonzero   *)
(* unlock time and no entry in the schema (game 7, block 1, bit 2 of       *)
(* UserStats) fails as a whole with the unrecognized-backend-response      *)
(* error: the stats handler is not called.                                 *)
(***************************************************************************)
C11_MissingAchievementFatal ==
    (Processed(UserStats) /\ "stats" \in handlers) =>
        /\ last.err = "UnknownBackendResponse"
        /\ ~CalledHandler(last.ev, "stats")

(***************************************************************************)
(* The deferred jobs and the job id counter.  The surrounding layer        *)
(* appends a job to job_list at any time; run() passes over a copy of the  *)
(* list before each wait on the socket.  A pass is split where it awaits   *)
(* the socket: the concurrent activities run between its sends.  The jobs  *)
(* are of the two kinds run() knows.                                       *)
(***************************************************************************)
\* How many jobs wait at most, the last job id the iterator yields here, and
\* how many heartbeat tasks are created while jobs are handled.
MaxJobs == 2

MaxJobId == 2

MaxJobTasks == 1

GameIds == {7}

\* "english"
LanguageEnglish == <<101, 110, 103, 108, 105, 115, 104>>

\* An iterator that yields the same value again.
AfterNextStuck(id) == id

\* The iterator count(1) after next() returned id.
AfterNext(id) == id + 1

StatsJob(game_id) == [job_name |-> "import_game_stats", game_id |-> game_id]

CollectionsJob == [job_name |-> "import_collections", game_id |-> 0]

Jobs == {StatsJob(g) : g \in GameIds} \cup {CollectionsJob}

\* A removal that takes every entry equal to x.
ListRemoveAll(list, x) == SelectSeq(list, LAMBDA y : y # x)

\* list.remove(x): the first entry equal to x goes.
RECURSIVE ListRemove(_, _)
ListRemove(list, x) ==
    IF list = <<>> THEN <<>>
    ELSE IF Head(list) = x THEN Tail(list)
    ELSE <<Head(list)>> \o ListRemove(Tail(list), x)

\* _import_game_stats
ImportGameStats(c, game_id) ==
    Send(Log(c, "importing_game_stats"), EMsgClientGetUserStats,
         <<Field(1, 1, U64(game_id))>>, None, None, None)

\* _import_game_time: the game id is the source and the target job id.
ImportGameTime(c, game_id) ==
    Send(Log(c, "importing_game_time"), EMsgServiceMethodCallFromClient,
         <<Field(1, 0, game_id)>>, Some(U64(game_id)), Some(U64(game_id)),
         Some(NameGameTime))

\* _import_collections, with the job id the iterator yielded.
ImportCollections(c, id) ==
    Send(c, EMsgServiceMethodCallFromClient,
         <<Field(1, 2, SerializeToString(<<Field(1, 0, 1)>>))>>,
         Some(U64(id)), None, Some(NameCollections))

\* The jobid_source of the header of the sent frame data.
JobIdSource(data) ==
    Get(ParseFromString(Slice(data, 8, 8 + LEValue(Slice(data, 4, 8)))).fields,
        10, 1, U64Max)

\* _send, lines 171-172 and 183: the jobid_source of each service-method call
\* that ev put on the wire joins the ones sent before, and the ones that
\* were sent before already are kept apart.
RECURSIVE Recorded(_, _)
Recorded(cs, ev) ==
    IF ~cs.recording \/ ev = <<>> THEN cs
    ELSE IF /\ Head(ev).type = "send"
            /\ Head(ev).name = "ok"
            /\ EMsgOf(Slice(Head(ev).arg, 0, 4)) = EMsgServiceMethodCallFromClient
         THEN Recorded([cs EXCEPT
                           !.sent = @ \cup {JobIdSource(Head(ev).arg)},
                           !.reused = IF JobIdSource(Head(ev).arg) \in cs.sent
                                      THEN @ \cup {JobIdSource(Head(ev).arg)}
                                      ELSE @],
                       Tail(ev))
         ELSE Recorded(cs, Tail(ev))

\* The surrounding layer appends a job.
AppendJob(job) ==
    /\ Suspended
    /\ Len(job_list) < MaxJobs
    /\ job_list' = Append(job_list, job)
    /\ last' = Step("append_job", <<job>>, <<>>, "none")
    /\ UNCHANGED <<handlers, steam_id, miniprofile_id, heartbeat_task, session_id,
                   collections, tasks, run_pc, run_err, packet, inbound,
                   heartbeat_off, job_id, snapshot, job_pc, codec, calls>>

\* The pass leaves the job it handled: it is removed from job_list and the
\* pass goes to the next job of the copy, or run() goes to the socket.
JobDone(job) ==
    /\ job_list' = ListRemove(job_list, job)
    /\ snapshot' = Tail(snapshot)
    /\ job_pc' = "stats"
    /\ run_pc' = IF Tail(snapshot) = <<>> THEN "recv" ELSE "job"
    /\ run_err' = run_err

\* The exception of a send leaves run(); the job stays where it is.
JobFailed(err) ==
    /\ run_pc' = "failed"
    /\ run_err' = err
    /\ UNCHANGED <<job_list, snapshot, job_pc>>

\* run(): the first request of an "import_game_stats" job.
JobStats(failAt) ==
    /\ run_pc = "job"
    /\ snapshot # <<>>
    /\ Head(snapshot).job_name = "import_game_stats"
    /\ job_pc = "stats"
    /\ LET r == ImportGameStats(Log(Self(failAt), "new_job"), Head(snapshot).game_id)
       IN  /\ IF r.err = "none"
              THEN /\ job_pc' = "time"
                   /\ UNCHANGED <<run_pc, run_err, job_list, snapshot>>
              ELSE JobFailed(r.err)
           /\ last' = Step("job_stats", <<Head(snapshot)>>, r.ev, r.err)
    /\ UNCHANGED <<handlers, steam_id, miniprofile_id, heartbeat_task, session_id,
                   collections, tasks, packet, inbound, heartbeat_off, job_id,
                   codec, calls>>

\* run(): the second request of the job, then job_list.remove(job).
JobTime(failAt) ==
    /\ run_pc = "job"
    /\ snapshot # <<>>
    /\ job_pc = "time"
    /\ LET r == ImportGameTime(Self(failAt), Head(snapshot).game_id)
       IN  /\ IF r.err = "none" THEN JobDone(Head(snapshot)) ELSE JobFailed(r.err)
           /\ last' = Step("job_time", <<Head(snapshot)>>, r.ev, r.err)
           /\ calls' = Recorded(calls, r.ev)
    /\ UNCHANGED <<handlers, steam_id, miniprofile_id, heartbeat_task, session_id,
                   collections, tasks, packet, inbound, heartbeat_off, job_id, codec>>

\* run(): the request of an "import_collections" job, then
\* job_list.remove(job).
JobCollections(failAt) ==
    /\ run_pc = "job"
    /\ snapshot # <<>>
    /\ Head(snapshot).job_name = "import_collections"
    /\ job_id <= MaxJobId
    /\ job_id' = AfterNext(job_id)
    /\ LET r == ImportCollections(Log(Self(failAt), "new_job"), job_id)
       IN  /\ IF r.err = "none" THEN JobDone(Head(snapshot)) ELSE JobFailed(r.err)
           /\ last' = Step("job_collections", <<Head(snapshot)>>, r.ev, r.err)
           /\ calls' = Recorded(calls, r.ev)
    /\ UNCHANGED <<handlers, steam_id, miniprofile_id, heartbeat_task, session_id,
                   collections, tasks, packet, inbound, heartbeat_off, codec>>

\* get_friends_statuses()
GetFriendsStatuses(failAt) ==
    /\ Suspended
    /\ job_id <= MaxJobId
    /\ job_id' = AfterNext(job_id)
    /\ LET r == Send(Self(failAt), EMsgServiceMethodCallFromClient, <<>>,
                     Some(U64(job_id)), None, Some(NameFriendPersonaStates))
       IN  /\ last' = Step("get_friends_statuses", <<job_id>>, r.ev, r.err)
           /\ calls' = Recorded(calls, r.ev)
    /\ UNCHANGED <<handlers, steam_id, miniprofile_id, heartbeat_task, session_id,
                   collections, tasks, run_pc, run_err, packet, inbound,
                   heartbeat_off, job_list, snapshot, job_pc, codec>>

\* get_presence_localization(appid)
GetPresenceLocalization(appid, failAt) ==
    /\ Suspended
    /\ job_id <= MaxJobId
    /\ job_id' = AfterNext(job_id)
    /\ LET r == Send(Log(Self(failAt), "presence_localization"),
                     EMsgServiceMethodCallFromClient,
                     <<Field(1, 0, appid), Field(2, 2, LanguageEnglish)>>,
                     Some(U64(job_id)), None, Some(NameTranslations))
       IN  /\ last' = Step("get_presence_localization", <<job_id>>, r.ev, r.err)
           /\ calls' = Recorded(calls, r.ev)
    /\ UNCHANGED <<handlers, steam_id, miniprofile_id, heartbeat_task, session_id,
                   collections, tasks, run_pc, run_err, packet, inbound,
                   heartbeat_off, job_list, snapshot, job_pc, codec>>

\* The frames the peer sends while jobs are handled.
JobsInbound == {LogOnOK(1, 1), LoggedOff, UnknownMessage, UnknownMethod}

InitJobs ==
    /\ Constructed(AllHandlers)
    /\ inbound = JobsInbound
    /\ calls = NoCalls(FALSE)

NextJobs ==
    \/ \E failAt \in 0..1 : LogOn(failAt)
    \/ Close
    \/ Drain
    \/ \E p \in inbound : Recv(p)
    \/ RecvTimeout
    \/ \E failAt \in 0..1 : Process(failAt) /\ Len(tasks') <= MaxJobTasks
    \/ \E job \in Jobs : AppendJob(job)
    \/ \E failAt \in 0..1 : JobStats(failAt)
    \/ \E failAt \in 0..1 : JobTime(failAt)
    \/ \E failAt \in 0..1 : JobCollections(failAt)
    \/ \E failAt \in 0..1 : GetFriendsStatuses(failAt)
    \/ \E appid \in GameIds, failAt \in 0..1 : GetPresenceLocalization(appid, failAt)

SpecJobs == InitJobs /\ [][NextJobs]_vars

(***************************************************************************)
(* C12: a well-formed frame of an unrecognized message type, and a         *)
(* service-method message whose target method name is none of the known    *)
(* names, are dropped without effect: the step that processes one calls no *)
(* handler, sends nothing and raises nothing, and it leaves the heartbeat  *)
(* tasks, the job queue, the job id counter and the collections            *)
(* accumulator as they were.                                               *)
(***************************************************************************)
UnknownProcessed == Processed(UnknownMessage) \/ Processed(UnknownMethod)

UnknownStep ==
    UnknownProcessed' =>
        UNCHANGED <<tasks, heartbeat_task, heartbeat_off, job_list, job_id,
                    snapshot, collections>>

C12_UnknownDropped ==
    /\ [](UnknownProcessed =>
             /\ last.err = "none"
             /\ run_pc # "failed"
             /\ HandlerCalls(last.ev) = <<>>
             /\ Sends(last.ev) = <<>>)
    /\ [][UnknownStep]_vars

\* An unknown method name was dropped while a heartbeat ran, a job waited
\* and a job id had been drawn.
C12_Witness ==
    /\ Processed(UnknownMethod)
    /\ handlers = AllHandlers
    /\ tasks # <<>>
    /\ job_list # <<>>
    /\ job_id > 1

(***************************************************************************)
(* C13: with a user_info handler registered, a persona-state entry of the  *)
(* session's own steam id that plays an app (app id nonzero) triggers      *)
(* exactly one product-info request, for that app, sent before the entry's *)
(* user info reaches the handler; an entry of another user, or with app id *)
(* 0, triggers none.                                                       *)
(***************************************************************************)
\* Event e is the send of a product-info request for exactly app_id.
AppInfoRequest(e, app_id) ==
    /\ e.type = "send"
    /\ HasProtoMask(Slice(e.arg, 0, 4))
    /\ EMsgOf(Slice(e.arg, 0, 4)) = EMsgPICSProductInfoRequest
    /\ SliceFrom(e.arg, 8 + LEValue(Slice(e.arg, 4, 8))) =
           SerializeToString(<<Field(2, 2, SerializeToString(<<Field(1, 0, app_id)>>))>>)

\* Event e hands the user info of user_id to the handler.
UserInfoCall(e, user_id) ==
    e.type = "handler" /\ e.name = "user_info" /\ e.arg[1] = user_id

\* Every user info handed over for the own user follows the request.
RequestBeforeOwnUserInfo(ev) ==
    \A j \in 1..Len(ev) :
        UserInfoCall(ev[j], OwnSteamId) =>
            \E i \in 1..(j - 1) : AppInfoRequest(ev[i], 7)

C13_OwnGameRequestsAppInfo ==
    /\ (Processed(PersonaState) /\ "user_info" \in handlers) =>
           IF steam_id = Some(OwnSteamId)
           THEN /\ Len(Sends(last.ev)) = 1
                /\ AppInfoRequest(Sends(last.ev)[1], 7)
                /\ RequestBeforeOwnUserInfo(last.ev)
                /\ last.err = "none" =>
                       \E j \in 1..Len(last.ev) : UserInfoCall(last.ev[j], OwnSteamId)
           ELSE Sends(last.ev) = <<>>
    /\ (Processed(PersonaStateIdle) /\ "user_info" \in handlers) =>
           Sends(last.ev) = <<>>

\* The own user's entry, in app 7, was processed after log_on.
C13_Witness ==
    /\ Processed(PersonaState)
    /\ "user_info" \in handlers
    /\ steam_id = Some(OwnSteamId)
    /\ last.err = "none"
    /\ \E j \in 1..Len(last.ev) : UserInfoCall(last.ev[j], FriendSteamId)

(***************************************************************************)
(* C14: for every license-list message, the list handed to the license     *)
(* handler is exactly the entries, in their order in the message, whose    *)
(* owner id equals the miniprofile id of the session and whose flags are   *)
(* not the junk value 520; the handler is called exactly once for the      *)
(* message, also when that list is empty.                                  *)
(***************************************************************************)
\* The entries <<package_id, owner_id, flags>> to forward for the profile.
Forwarded(entries, profile_id) ==
    LET kept == SelectSeq(entries, LAMBDA e : e[2] = profile_id /\ e[3] # 520)
    IN  [i \in 1..Len(kept) |->
            [package_id |-> kept[i][1], flags |-> kept[i][3], owner_id |-> kept[i][2]]]

C14_LicensesFiltered ==
    \A entries \in LicenseLists :
        (/\ Processed(LicenseListOf(entries))
         /\ "license_import" \in handlers
         /\ miniprofile_id # None) =>
            /\ last.err = "none"
            /\ HandlerCalls(last.ev) =
                   <<Event("handler", "license_import",
                           <<Forwarded(entries, miniprofile_id[1])>>)>>

\* A list with two entries to forward, apart, was processed after log_on.
C14_Witness ==
    /\ Processed(LicenseListOf(
           <<<<1, OwnMiniprofileId, 0>>, <<2, OwnMiniprofileId, JunkFlags>>,
             <<3, 99, 0>>, <<4, OwnMiniprofileId, 1024>>>>))
    /\ "license_import" \in handlers
    /\ miniprofile_id = Some(OwnMiniprofileId)
    /\ Len(HandlerCalls(last.ev)[1].arg[1]) = 2

(***************************************************************************)
(* C15: the job id counter yields 1, 2, ..., N over N calls: it starts at  *)
(* 1, each call that draws an id puts the current value on the wire as the *)
(* source job id and moves the counter up by one, and no other step        *)
(* (log_on, a logoff, close(), the pass over the jobs, a received frame)   *)
(* changes it, whether or not the send of the step failed.                 *)
(***************************************************************************)
\* The step drew a job id.
DrawsJobId ==
    last.op \in {"job_collections", "get_friends_statuses", "get_presence_localization"}

JobIdStep ==
    IF DrawsJobId'
    THEN /\ job_id' = job_id + 1
         /\ Len(Sends(last'.ev)) = 1
         /\ JobIdSource(Sends(last'.ev)[1].arg) = U64(job_id)
    ELSE job_id' = job_id

C15_JobIdsCountUp ==
    /\ job_id = 1
    /\ [][JobIdStep]_vars

\* The second id was drawn by a call whose send failed, after log_on and
\* after close() or a logoff.
C15_Witness ==
    /\ DrawsJobId
    /\ last.err = "TransportError"
    /\ JobIdSource(Sends(last.ev)[1].arg) = U64(2)
    /\ job_id = 3
    /\ steam_id # None
    /\ heartbeat_off

(***************************************************************************)
(* Encoding and decoding of one frame.  _send packs the message type with  *)
(* the flag bit and the length of the serialized header, then the header   *)
(* and the body; _process_packet reads them back.  The headers are those   *)
(* _send builds, the bodies any bytes.                                     *)
(***************************************************************************)
\* The largest message type below the flag bit.
MaxEMsg == 2147483647

CodecEMsgs == {EMsgMulti, EMsgClientHeartBeat, EMsgPICSProductInfoRequest, MaxEMsg}

CodecBodies == {<<>>, <<8, 1>>, <<255, 0, 10, 1, 128>>}

\* The session a header is built in: <<_steam_id, _session_id>>.
CodecSessions == {None, Some(OwnSteamId)} \X {None, Some(1), Some(300)}

\* The job arguments of _send: <<source_job_id, target_job_id, target_job_name>>.
CodecJobs == {None, Some(U64(1))} \X {None, Some(U64(7))} \X {None, Some(NameGameTime)}

CodecHeader(session, job) ==
    SendHeader([steam_id |-> session[1], session_id |-> session[2]],
               job[1], job[2], job[3])

\* _send, from struct.pack on: the frame of emsg, header and body.
Encode(emsg, header, body) ==
    /\ codec.stage = "idle"
    /\ codec' = [codec EXCEPT !.stage = "encoded", !.emsg = emsg, !.header = header,
                              !.body = body,
                              !.data = Frame(emsg, SerializeToString(header), body)]
    /\ last' = Step("encode", <<>>, <<>>, "none")
    /\ UNCHANGED <<handlers, steam_id, miniprofile_id, heartbeat_task, session_id,
                   collections, tasks, run_pc, run_err, packet, inbound,
                   heartbeat_off, jobvars, calls>>

\* _process_packet, up to the dispatch: the frame is read back.
DecodeEncoded ==
    /\ codec.stage = "encoded"
    /\ codec' = [codec EXCEPT !.stage = "decoded", !.out = Decode(codec.data)]
    /\ last' = Step("decode", <<>>, <<>>, "none")
    /\ UNCHANGED <<handlers, steam_id, miniprofile_id, heartbeat_task, session_id,
                   collections, tasks, run_pc, run_err, packet, inbound,
                   heartbeat_off, jobvars, calls>>

InitCodec ==
    /\ Constructed({})
    /\ inbound = {}
    /\ calls = NoCalls(FALSE)

NextCodec ==
    \/ \E emsg \in CodecEMsgs, session \in CodecSessions, job \in CodecJobs,
          body \in CodecBodies :
           Encode(emsg, CodecHeader(session, job), body)
    \/ DecodeEncoded

SpecCodec == InitCodec /\ [][NextCodec]_vars

(***************************************************************************)
(* C16: encoding a frame of any message type below the flag bit, header    *)
(* and body, and decoding the bytes produced, yields the original message  *)
(* type, header and body: the flag bit is set on the wire and stripped on  *)
(* decoding, the header length word is the length of the serialized        *)
(* header, and the body is every byte after the header.                    *)
(***************************************************************************)
C16_RoundTrip ==
    /\ codec.stage # "idle" =>
           /\ Len(codec.data) = 8 + Len(SerializeToString(codec.header)) + Len(codec.body)
           /\ HasProtoMask(Slice(codec.data, 0, 4))
           /\ LEValue(Slice(codec.data, 4, 8)) = Len(SerializeToString(codec.header))
    /\ codec.stage = "decoded" =>
           codec.out = [flagged |-> TRUE, emsg |-> codec.emsg,
                        header |-> [ok |-> TRUE, fields |-> codec.header],
                        body |-> codec.body]

\* The largest message type, a header with all five fields and a body that
\* ends in a byte with the top bit set came back.
C16_Witness ==
    /\ codec.stage = "decoded"
    /\ codec.emsg = MaxEMsg
    /\ Len(codec.header) = 5
    /\ Len(codec.body) = 5
    /\ codec.out.body = codec.body

(***************************************************************************)
(* C17: a pass of run() goes over a copy of job_list, oldest entry first.  *)
(* For an "import_game_stats" entry it sends the stats request and then    *)
(* the playtime request of the same game, and removes the entry only after *)
(* both sends returned; for an "import_collections" entry it removes the   *)
(* entry only after the download request was sent.  When a send fails the  *)
(* entry is still in job_list.                                             *)
(***************************************************************************)
IsPrefix(s, t) == Len(s) <= Len(t) /\ SubSeq(t, 1, Len(s)) = s

\* The frame data is the request of _import_game_stats for game_id.
StatsRequest(data, game_id) ==
    /\ Decode(data).emsg = EMsgClientGetUserStats
    /\ Decode(data).body = SerializeToString(<<Field(1, 1, U64(game_id))>>)

\* The frame data is the request of _import_game_time for game_id.
TimeRequest(data, game_id) ==
    /\ Decode(data).emsg = EMsgServiceMethodCallFromClient
    /\ Get(Decode(data).header.fields, 12, 2, <<>>) = NameGameTime
    /\ Decode(data).body = SerializeToString(<<Field(1, 0, game_id)>>)

\* The frame data is the request of _import_collections.
CollectionsRequest(data) ==
    /\ Decode(data).emsg = EMsgServiceMethodCallFromClient
    /\ Get(Decode(data).header.fields, 12, 2, <<>>) = NameCollections

\* The step sent the last request of the oldest entry of the copy: the
\* entry, the oldest of job_list too, is removed if the send returned and
\* stays if it failed.
LastRequestStep ==
    IF last'.err = "none"
    THEN /\ Head(job_list) = Head(snapshot)
         /\ job_list' = Tail(job_list)
         /\ snapshot' = Tail(snapshot)
         /\ run_pc' = IF snapshot' = <<>> THEN "recv" ELSE "job"
    ELSE /\ UNCHANGED <<job_list, snapshot>>
         /\ run_pc' = "failed"

PassStep ==
    CASE last'.op = "drain" ->
             /\ snapshot' = job_list
             /\ job_list' = job_list
      [] last'.op = "job_stats" ->
             /\ Head(snapshot).job_name = "import_game_stats"
             /\ job_pc = "stats"
             /\ Len(Sends(last'.ev)) = 1
             /\ StatsRequest(Sends(last'.ev)[1].arg, Head(snapshot).game_id)
             /\ UNCHANGED <<job_list, snapshot>>
             /\ job_pc' = IF last'.err = "none" THEN "time" ELSE "stats"
             /\ run_pc' = IF last'.err = "none" THEN "job" ELSE "failed"
      [] last'.op = "job_time" ->
             /\ Head(snapshot).job_name = "import_game_stats"
             /\ job_pc = "time"
             /\ Len(Sends(last'.ev)) = 1
             /\ TimeRequest(Sends(last'.ev)[1].arg, Head(snapshot).game_id)
             /\ LastRequestStep
      [] last'.op = "job_collections" ->
             /\ Head(snapshot).job_name = "import_collections"
             /\ Len(Sends(last'.ev)) = 1
             /\ CollectionsRequest(Sends(last'.ev)[1].arg)
             /\ LastRequestStep
      [] OTHER ->
             /\ IsPrefix(job_list, job_list')
             /\ UNCHANGED <<snapshot, job_pc>>

C17_PassSendsThenRemoves ==
    /\ [](IsPrefix(snapshot, job_list))
    /\ [][PassStep]_vars

\* The playtime request of a job was sent and the job removed, while a job
\* appended during the pass waits for the next pass.
C17_Witness ==
    /\ last.op = "job_time"
    /\ last.err = "none"
    /\ snapshot = <<>>
    /\ job_list = <<CollectionsJob>>

(***************************************************************************)
(* C18: an entry appended to job_list, at any moment, is never lost: as    *)
(* long as the sends succeed its requests are eventually issued, once, and *)
(* the entry is then removed.  Only run() issues the requests of an entry, *)
(* so an entry is lost when run() has ended while the entry waits; stated  *)
(* as an invariant: run() never ends on anything but a failed send while   *)
(* job_list holds an entry.                                                *)
(***************************************************************************)
C18_AppendedJobsProcessed ==
    (run_pc = "failed" /\ run_err # "TransportError") => job_list = <<>>

(***************************************************************************)
(* C19: the completion signal of the collections download is set once, and *)
(* only when the whole download response has been consumed: while chunks   *)
(* of the download are still to arrive it is not set, so whenever it is    *)
(* set the accumulator holds the entries of every chunk.  The download     *)
(* here has the two chunks CollectionsChunk(1) and CollectionsChunk(2),    *)
(* with the entries named 1 and 2.                                         *)
(***************************************************************************)
DownloadChunks == {1, 2}

Collected(name) ==
    \E i \in 1..Len(collections.collections) : collections.collections[i][1] = name

C19_SignalWhenComplete ==
    collections.event => \A name \in DownloadChunks : Collected(name)

(***************************************************************************)
(* C20: a structured frame whose header length word points behind the end  *)
(* of the frame (header length + 8 > frame length) is dropped and never    *)
(* partially processed: no session id is learnt from its truncated header  *)
(* and no message is dispatched from it.                                   *)
(***************************************************************************)
C20_OverlongHeaderDropped ==
    Processed(HeaderTooLong) =>
        /\ ~Logged(last.ev, "session_id")
        /\ Dispatches(last.ev) = <<>>
        /\ HandlerCalls(last.ev) = <<>>

(***************************************************************************)
(* The service-method calls of one client: the pass of run() over the      *)
(* jobs, get_friends_statuses and get_presence_localization, with the      *)
(* source job id of every call that went on the wire recorded.             *)
(***************************************************************************)
InitCalls ==
    /\ Constructed(AllHandlers)
    /\ inbound = {}
    /\ calls = NoCalls(TRUE)

NextCalls ==
    \/ Drain
    \/ RecvTimeout
    \/ \E job \in Jobs : AppendJob(job)
    \/ \E failAt \in 0..1 : JobStats(failAt)
    \/ \E failAt \in 0..1 : JobTime(failAt)
    \/ \E failAt \in 0..1 : JobCollections(failAt)
    \/ \E failAt \in 0..1 : GetFriendsStatuses(failAt)
    \/ \E appid \in GameIds, failAt \in 0..1 : GetPresenceLocalization(appid, failAt)

SpecCalls == InitCalls /\ [][NextCalls]_vars

(***************************************************************************)
(* C21: no two service-method calls sent by one client carry the same      *)
(* source job id, over any sequence of get_friends_statuses,               *)
(* get_presence_localization, collections jobs and playtime lookups, two   *)
(* lookups for the same game included: no source job id was put on the     *)
(* wire by a call after an earlier call had carried it.                    *)
(***************************************************************************)
C21_SourceJobIdNeverReused == calls.reused = {}

(***************************************************************************)
(* The frames one client sends: log_on, the heartbeat of a logon answered  *)
(* with the session id 1, the requests of the jobs, get_friends_statuses   *)
(* and get_presence_localization.                                          *)
(***************************************************************************)
HeadersInbound == {LogOnOK(1, 1)}

InitHeaders ==
    /\ Constructed(AllHandlers)
    /\ inbound = HeadersInbound
    /\ calls = NoCalls(FALSE)

NextHeaders ==
    \/ \E failAt \in 0..1 : LogOn(failAt)
    \/ Drain
    \/ \E p \in inbound : Recv(p)
    \/ RecvTimeout
    \/ \E failAt \in 0..1 : Process(failAt) /\ Len(tasks') <= MaxJobTasks
    \/ Tick
    \/ \E i \in 1..MaxJobTasks, failAt \in 0..1 : Heartbeat(i, failAt)
    \/ \E job \in Jobs : AppendJob(job)
    \/ \E failAt \in 0..1 : JobStats(failAt)
    \/ \E failAt \in 0..1 : JobTime(failAt)
    \/ \E failAt \in 0..1 : JobCollections(failAt)
    \/ \E failAt \in 0..1 : GetFriendsStatuses(failAt)
    \/ \E appid \in GameIds, failAt \in 0..1 : GetPresenceLocalization(appid, failAt)

SpecHeaders == InitHeaders /\ [][NextHeaders]_vars

(***************************************************************************)
(* C22: the header of every outbound frame, heartbeat frames and requests  *)
(* alike, reflects the state of the client when it is sent: it carries the *)
(* session id if and only if one was learned from a received frame before  *)
(* the send, and then that value; it carries the principal id if and only  *)
(* if log_on was called and its send has not failed (the logon frame       *)
(* itself carries it); and it carries the source job id, the target job id *)
(* and the target method name exactly when the caller passed them, with    *)
(* the values passed.                                                      *)
(***************************************************************************)
\* The header of the frame data has field f with the value of v, or has no
\* field f if v is None.
Carries(data, f, wt, v) ==
    IF v = None
    THEN ~HasField(Decode(data).header.fields, f, wt)
    ELSE /\ HasField(Decode(data).header.fields, f, wt)
         /\ Get(Decode(data).header.fields, f, wt, v[1]) = v[1]

\* What the caller of _send passed in the last step: the source job id,
\* the target job id and the target method name.
PassedSourceJobId ==
    IF last.op = "job_time" THEN Some(U64(last.arg[1].game_id))
    ELSE IF DrawsJobId THEN Some(U64(job_id - 1))
    ELSE None

PassedTargetJobId ==
    IF last.op = "job_time" THEN Some(U64(last.arg[1].game_id)) ELSE None

PassedTargetJobName ==
    IF last.op = "job_time" THEN Some(NameGameTime)
    ELSE IF last.op = "job_collections" THEN Some(NameCollections)
    ELSE IF last.op = "get_friends_statuses" THEN Some(NameFriendPersonaStates)
    ELSE IF last.op = "get_presence_localization" THEN Some(NameTranslations)
    ELSE None

\* Every frame the last step built is stamped from the state of the client.
HeadersReflectState ==
    \A i \in 1..Len(Sends(last.ev)) :
        /\ Carries(Sends(last.ev)[i].arg, 2, 0, session_id)
        /\ Carries(Sends(last.ev)[i].arg, 1, 1,
                   IF last.op = "log_on" THEN Some(OwnSteamId) ELSE steam_id)
        /\ Carries(Sends(last.ev)[i].arg, 10, 1, PassedSourceJobId)
        /\ Carries(Sends(last.ev)[i].arg, 11, 1, PassedTargetJobId)
        /\ Carries(Sends(last.ev)[i].arg, 12, 2, PassedTargetJobName)

\* The principal id is set by log_on and dropped when its send fails; the
\* session id is learned from a received frame; no step that sends changes
\* either in another way, so a frame is stamped with what was known before.
SessionStateStep ==
    /\ steam_id' = IF last'.op = "log_on"
                   THEN (IF last'.err = "none" THEN Some(OwnSteamId) ELSE None)
                   ELSE steam_id
    /\ session_id' # session_id => last'.op = "process" /\ Sends(last'.ev) = <<>>

C22_HeadersReflectState == []HeadersReflectState /\ [][SessionStateStep]_vars

\* A call was sent after a logon whose response brought the session id 1:
\* its header has the principal id, the session id, the source job id and
\* the method name, and no target job id.
C22_Witness ==
    /\ last.op = "get_friends_statuses"
    /\ steam_id = Some(OwnSteamId)
    /\ session_id = Some(1)
    /\ Len(Sends(last.ev)) = 1
    /\ Decode(Sends(last.ev)[1].arg).header.fields =
           <<Field(1, 1, OwnSteamId), Field(2, 0, 1), Field(10, 1, U64(job_id - 1)),
             Field(12, 2, NameFriendPersonaStates)>>

=============================================================================
